---- MODULE Spec2Model ----
(***************************************************************************)
(* A model of the sqlcraft / flow_sql statement builders: the condition    *)
(* parser and its and_where/or_where fold, the recursive WHERE renderer,   *)
(* the per-build BuildContext with its placeholder allocation, nested      *)
(* subquery builds, and the UPDATE / DELETE / INSERT / SELECT assemblers.  *)
(*                                                                         *)
(* Python values are tagged tuples:                                        *)
(*   <<"none">>  <<"bool", b>>  <<"num", n>>  <<"str", chars>>             *)
(*   <<"list", items>>  <<"tuple", items>>  <<"map", pairs>>               *)
(*   <<"cmd", id>>      a BaseCommand object (a reference into heap)       *)
(*   <<"sql", tokens>>  a psycopg2 sql.Composable                          *)
(*   <<"expr", chars>>  misc.Expr                                          *)
(*   <<"cond", op, ident, value>>   misc.WhereCond                         *)
(*   <<"arr", op, conds>>           misc.WhereCondArr                      *)
(*   <<"raw", value>>               misc.WhereCondRaw                      *)
(* A Python str is a sequence of one-character strings, except for the     *)
(* keys of parameter dicts, which are TLA+ strings.  A psycopg2 Composable *)
(* is the sequence of the text pieces it is composed of; as_string is      *)
(* their concatenation.                                                    *)
(***************************************************************************)
EXTENDS Integers, Sequences, FiniteSets, TLC

VARIABLES
    heap,    \* the builder objects: statement id -> the fields of the object
    twin,    \* the same objects built by the same calls with other bound values
    out,     \* <<the result of the last call>> when it was a build, else <<>>
    prev,    \* <<the result of the build before it>> when no other call came between
    driver,  \* the (query, params) pairs the last call passed to cursor.execute
    raised,  \* the message of the exception the last call raised, "" when it returned
    wlog,    \* per statement, the condition calls made since (and with) the last where()
    quoted,  \* <<the argument and the result of the last quote_string call>>, else <<>>
    held,    \* the WhereCondArr object the caller holds, and where the statements refer to it
    conn     \* the Connection: its _transaction_level and what it asked of the driver

vars == <<heap, twin, out, prev, driver, raised, wlog, quoted, held, conn>>

----------------------------------------------------------------------------
(* Bounds of the model *)

\* mutating calls made in one session of the binding specification (Spec)
MaxCalls == 3
\* where/and_where/or_where calls made on the statement of SpecGuard
MaxGuardCalls == 2
\* where/and_where/or_where calls made on the statement of SpecFold
MaxFoldCalls == 3
\* where/and_where/or_where calls made on the statement of SpecCond
MaxCondCalls == 2
\* characters of the strings given to quote_string in SpecQuote
MaxTextLen == 3
\* begin_transaction/commit/rollback calls made on the Connection of SpecConn
MaxTxCalls == 5
\* rows and columns an Insert of SpecInsert holds before a call that adds more
MaxRows == 2
MaxColumns == 2
\* where/and_where/or_where calls a statement of SpecNested holds, and add_param calls
\* in all
MaxNestedCalls == 2
MaxSeeds == 1
\* condition calls on the two statements of SpecShared
MaxSharedCalls == 3
\* JOIN entries the SELECT of SpecSelect holds
MaxJoins == 1
\* entries a clause holds before an adder call of SpecLists, and and_where/or_where
\* calls after a where
MaxEntries == 3

----------------------------------------------------------------------------
(* Python builtins used by the code *)

None == <<"none">>
PyStr(chars) == <<"str", chars>>
PyNum(n) == <<"num", n>>
PyBool(b) == <<"bool", b>>
PyList(items) == <<"list", items>>
PyTuple(items) == <<"tuple", items>>
PyMap(pairs) == <<"map", pairs>>
Cmd(id) == <<"cmd", id>>

Tag(v) == v[1]

UpperAlpha == <<"A","B","C","D","E","F","G","H","I","J","K","L","M",
                "N","O","P","Q","R","S","T","U","V","W","X","Y","Z">>
LowerAlpha == <<"a","b","c","d","e","f","g","h","i","j","k","l","m",
                "n","o","p","q","r","s","t","u","v","w","x","y","z">>
Digits == <<"0","1","2","3","4","5","6","7","8","9">>

Range(f) == {f[i] : i \in DOMAIN f}

IndexOf(seq, c) == CHOOSE i \in DOMAIN seq : seq[i] = c

\* str.lower() and str.upper()
LowerChar(c) == IF c \in Range(UpperAlpha) THEN LowerAlpha[IndexOf(UpperAlpha, c)] ELSE c
UpperChar(c) == IF c \in Range(LowerAlpha) THEN UpperAlpha[IndexOf(LowerAlpha, c)] ELSE c
Lower(chars) == [i \in DOMAIN chars |-> LowerChar(chars[i])]
Upper(chars) == [i \in DOMAIN chars |-> UpperChar(chars[i])]

\* str.startswith / str.endswith
StartsWith(chars, p) ==
    Len(chars) >= Len(p) /\ SubSeq(chars, 1, Len(p)) = p
EndsWith(chars, s) ==
    Len(chars) >= Len(s) /\ SubSeq(chars, Len(chars) - Len(s) + 1, Len(chars)) = s

\* the text of a Python str, as one TLA+ string
RECURSIVE Str(_)
Str(chars) == IF chars = <<>> THEN "" ELSE Head(chars) \o Str(Tail(chars))

\* the concatenation of a sequence of sequences
RECURSIVE Flatten(_)
Flatten(seqs) == IF seqs = <<>> THEN <<>> ELSE Head(seqs) \o Flatten(Tail(seqs))

\* isinstance(v, str), isinstance(v, Sequence) and not str, isinstance(v, Iterable) and not str
IsStr(v) == Tag(v) = "str"
IsSequence(v) == Tag(v) \in {"list", "tuple", "cond", "arr", "raw"}
IsIterable(v) == Tag(v) \in {"list", "tuple", "map", "cond", "arr", "raw"}
IsMapping(v) == Tag(v) = "map"
IsCommand(v) == Tag(v) = "cmd"
IsComposable(v) == Tag(v) = "sql"

----------------------------------------------------------------------------
(* psycopg2.sql *)

\* sql.SQL(sep).join(items): items is a sequence of Composables
RECURSIVE SqlJoin(_, _)
SqlJoin(sep, items) ==
    IF items = <<>> THEN <<>>
    ELSE IF Len(items) = 1 THEN items[1]
    ELSE items[1] \o <<sep>> \o SqlJoin(sep, Tail(items))

\* Composable.as_string(conn)
RECURSIVE AsString(_)
AsString(tokens) == IF tokens = <<>> THEN "" ELSE Head(tokens) \o AsString(Tail(tokens))

\* sql.Placeholder(name)
Placeholder(name) == <<"%(" \o name \o ")s">>

\* sql.Identifier(name)
Identifier(chars) == <<"\"" \o Str(chars) \o "\"">>

\* sql.Literal(value) for the constants the builders pass to it
Literal(v) ==
    CASE Tag(v) = "none" -> <<"NULL">>
      [] Tag(v) = "bool" -> <<IF v[2] THEN "true" ELSE "false">>
      [] Tag(v) = "num" -> <<ToString(v[2])>>
      [] Tag(v) = "str" -> <<"'" \o Str(v[2]) \o "'">>
      [] OTHER -> <<"<literal>">>

----------------------------------------------------------------------------
(* base.py: BuildContext *)

\* the empty dict
EmptyDict == [n \in {} |-> None]

DictSet(d, k, v) == [n \in DOMAIN d \cup {k} |-> IF n = k THEN v ELSE d[n]]

\* dict.update-like loop "for k, v in src.items(): d[k] = v"
DictMerge(d, src) == [n \in DOMAIN d \cup DOMAIN src |-> IF n \in DOMAIN src THEN src[n] ELSE d[n]]

\* _prepare_param_value: a mapping or a non-str iterable becomes its JSON text
PrepareParamValue(value, json_stringify) ==
    IF json_stringify /\ ~IsStr(value) /\ (IsMapping(value) \/ IsIterable(value))
    THEN <<"json", value>>
    ELSE value

\* BuildContext.__init__; store is the object store the build runs in, binds the
\* names returned by set_param so far, in order, each with the keys the map held when
\* it was chosen, and subs the nested builds made so far
BuildContext(user_params, param_name_prefix, store) ==
    [ params |-> user_params,
      param_name_prefix |-> IF param_name_prefix /= "" THEN param_name_prefix ELSE "p",
      subqueries_built |-> 0,
      params_next_idx |-> 0,
      error |-> "",
      binds |-> <<>>,
      subs |-> <<>>,
      store |-> store ]

ParamName(prefix, idx) == prefix \o ToString(idx)

\* the while loop of set_param: the first index from idx on whose name is not in params
RECURSIVE NextFreeIdx(_, _, _)
NextFreeIdx(params, prefix, idx) ==
    IF ParamName(prefix, idx) \in DOMAIN params
    THEN NextFreeIdx(params, prefix, idx + 1)
    ELSE idx

\* a rendering step returns the Composable (or None) and the context after it
Res(q, ctx) == [isNone |-> FALSE, q |-> q, ctx |-> ctx]
ResNone(ctx) == [isNone |-> TRUE, q |-> <<>>, ctx |-> ctx]

\* an exception raised while building: the first one is kept
Raise(ctx, msg) == IF ctx.error = "" THEN [ctx EXCEPT !.error = msg] ELSE ctx

\* a set_param that takes the next index without looking at the names in use
SetParamNoSkip(ctx, value, json_stringify) ==
    LET param_name == ParamName(ctx.param_name_prefix, ctx.params_next_idx)
    IN  Res(Placeholder(param_name),
            [ctx EXCEPT !.params_next_idx = ctx.params_next_idx + 1,
                        !.params = DictSet(ctx.params, param_name,
                                           PrepareParamValue(value, json_stringify)),
                        !.binds = Append(ctx.binds, [name |-> param_name,
                                                     keys |-> DOMAIN ctx.params,
                                                     value |-> PrepareParamValue(
                                                                  value, json_stringify)])])

\* BuildContext.set_param
SetParam(ctx, value, json_stringify) ==
    LET idx == NextFreeIdx(ctx.params, ctx.param_name_prefix, ctx.params_next_idx)
        param_name == ParamName(ctx.param_name_prefix, idx)
    IN  Res(Placeholder(param_name),
            [ctx EXCEPT !.params_next_idx = idx,
                        !.params = DictSet(ctx.params, param_name,
                                           PrepareParamValue(value, json_stringify)),
                        !.binds = Append(ctx.binds, [name |-> param_name,
                                                     keys |-> DOMAIN ctx.params,
                                                     value |-> PrepareParamValue(
                                                                  value, json_stringify)])])

----------------------------------------------------------------------------
(* base.py: identifier quoting *)

WordChars == Range(UpperAlpha) \cup Range(LowerAlpha) \cup Range(Digits) \cup {"_"}

IsWordChar(c) == c \in WordChars

\* int(name) for a run of digits
RECURSIVE IntOf(_)
IntOf(chars) ==
    IF chars = <<>> THEN 0
    ELSE IntOf(SubSeq(chars, 1, Len(chars) - 1)) * 10
         + (IndexOf(Digits, chars[Len(chars)]) - 1)

\* a _quote_identifier that quotes a run of digits like any other name
QuoteIdentifierAlways(name) == Identifier(name)

\* BaseCommand._quote_identifier: a run of digits is an integer literal
QuoteIdentifier(name) ==
    IF \A i \in DOMAIN name : name[i] \in Range(Digits)
    THEN Literal(PyNum(IntOf(name)))
    ELSE Identifier(name)

\* the maximal runs of word and of non-word characters of a text
RECURSIVE Runs(_)
Runs(chars) ==
    IF chars = <<>> THEN <<>>
    ELSE LET rest == Runs(Tail(chars))
             c == Head(chars)
         IN  IF rest /= <<>> /\ IsWordChar(Head(rest)[1]) = IsWordChar(c)
             THEN <<(<<c>> \o Head(rest))>> \o Tail(rest)
             ELSE <<(<<c>>)>> \o rest

\* BaseCommand._split_identifiers: re.split(r'\b', text) cuts at every word boundary,
\* so a text that starts or ends with a word character has an empty first or last piece
SplitIdentifiers(text) ==
    IF text = <<>> THEN << <<>> >>
    ELSE (IF IsWordChar(text[1]) THEN << <<>> >> ELSE <<>>)
         \o Runs(text)
         \o (IF IsWordChar(text[Len(text)]) THEN << <<>> >> ELSE <<>>)

\* BaseCommand._valid_identifier
ValidIdentifier(text) == Len(text) > 0 /\ \A i \in DOMAIN text : IsWordChar(text[i])

HasParen(chars) == \E i \in DOMAIN chars : chars[i] \in {"(", ")"}

\* the last branch of quote_string: a str without parentheses
QuoteWords(val) ==
    LET pieces == SplitIdentifiers(val)
    IN  Flatten([i \in DOMAIN pieces |->
                    IF ValidIdentifier(pieces[i]) THEN QuoteIdentifier(pieces[i])
                    ELSE <<Str(pieces[i])>>])

----------------------------------------------------------------------------
(* constants.py: the operator keywords, as the builders and their tests use them *)

WHERE_OP_AND == <<"a","n","d">>
WHERE_OP_OR == <<"o","r">>
WHERE_OP_EQUAL == <<"=">>
WHERE_OP_LT == <<"<">>
WHERE_OP_LTE == <<"<","=">>
WHERE_OP_GT == <<">">>
WHERE_OP_GTE == <<">","=">>
WHERE_OP_NE == <<"<",">">>
WHERE_OP_NE2 == <<"!","=">>
WHERE_OP_IN == <<"i","n">>
WHERE_OP_NOT_IN == <<"n","o","t"," ","i","n">>
WHERE_OP_LIKE == <<"l","i","k","e">>
WHERE_OP_ILIKE == <<"i","l","i","k","e">>
WHERE_OP_NOT_LIKE == <<"n","o","t"," ","l","i","k","e">>
WHERE_OP_NOT_ILIKE == <<"n","o","t"," ","i","l","i","k","e">>
WHERE_OP_OR_LIKE == <<"o","r"," ","l","i","k","e">>
WHERE_OP_OR_ILIKE == <<"o","r"," ","i","l","i","k","e">>
WHERE_OP_OR_NOT_LIKE == <<"o","r"," ","n","o","t"," ","l","i","k","e">>
WHERE_OP_OR_NOT_ILIKE == <<"o","r"," ","n","o","t"," ","i","l","i","k","e">>
WHERE_OP_NOT == <<"n","o","t">>
WHERE_OP_BETWEEN == <<"b","e","t","w","e","e","n">>
WHERE_OP_NOT_BETWEEN == <<"n","o","t"," ","b","e","t","w","e","e","n">>
WHERE_OP_EXISTS == <<"e","x","i","s","t","s">>
WHERE_OP_NOT_EXISTS == <<"n","o","t"," ","e","x","i","s","t","s">>
WHERE_OP_IS_NULL == <<"i","s"," ","n","u","l","l">>
WHERE_OP_IS_NOT_NULL == <<"i","s"," ","n","o","t"," ","n","u","l","l">>

WHERE_COMP_OPS == {WHERE_OP_AND, WHERE_OP_OR}

----------------------------------------------------------------------------
(* misc.py: the condition nodes *)

WhereCond(op, ident, value) == <<"cond", op, ident, value>>
WhereCondArr(op, conds) == <<"arr", op, conds>>
WhereCondRaw(value) == <<"raw", value>>

IsWhereCond(v) == Tag(v) = "cond"
IsWhereCondArr(v) == Tag(v) = "arr"
IsWhereCondRaw(v) == Tag(v) = "raw"

\* an exception raised by a parsing call
ParseError(msg) == <<"error", msg>>
IsError(v) == Tag(v) = "error"

\* the items of a Python sequence: cond[i - 1] is Items(cond)[i]
Items(v) ==
    CASE Tag(v) \in {"list", "tuple"} -> v[2]
      [] Tag(v) = "cond" -> <<PyStr(v[2]), v[3], v[4]>>
      [] Tag(v) = "arr" -> <<PyStr(v[2]), PyList(v[3])>>
      [] Tag(v) = "raw" -> <<v[2]>>
      [] OTHER -> <<>>

----------------------------------------------------------------------------
(* behaviours.py: WhereBehaviour, the parse phase *)

\* _parse_where_str
ParseWhereStr(cond) ==
    IF EndsWith(Lower(cond), <<" ">> \o WHERE_OP_IS_NULL)
    THEN WhereCond(WHERE_OP_IS_NULL,
                   PyStr(SubSeq(cond, 1, Len(cond) - (Len(WHERE_OP_IS_NULL) + 1))), None)
    ELSE IF EndsWith(Lower(cond), <<" ">> \o WHERE_OP_IS_NOT_NULL)
    THEN WhereCond(WHERE_OP_IS_NOT_NULL,
                   PyStr(SubSeq(cond, 1, Len(cond) - (Len(WHERE_OP_IS_NOT_NULL) + 1))), None)
    ELSE IF StartsWith(Lower(cond), WHERE_OP_NOT \o <<" ">>)
    THEN WhereCond(WHERE_OP_NOT, PyStr(SubSeq(cond, Len(WHERE_OP_NOT) + 2, Len(cond))), None)
    ELSE WhereCondRaw(PyStr(cond))

\* _parse_where_0_param
ParseWhere0Param(items) ==
    IF Len(items) < 2 THEN ParseError("IndexError")
    ELSE WhereCond(Lower(items[1][2]), items[2], None)

\* _parse_where_1_param
ParseWhere1Param(items) ==
    IF Len(items) < 3 THEN ParseError("IndexError")
    ELSE WhereCond(Lower(items[1][2]), items[2], items[3])

\* _parse_where_between
ParseWhereBetween(items) ==
    IF Len(items) < 3 THEN ParseError("IndexError")
    ELSE WhereCond(Lower(items[1][2]), items[2],
                   IF Len(items) = 4 THEN PyTuple(<<items[3], items[4]>>) ELSE items[3])

Ops0Param == {WHERE_OP_NOT, WHERE_OP_EXISTS, WHERE_OP_NOT_EXISTS,
              WHERE_OP_IS_NULL, WHERE_OP_IS_NOT_NULL}
OpsBetween == {WHERE_OP_BETWEEN, WHERE_OP_NOT_BETWEEN}
OpsLgte == {WHERE_OP_EQUAL, WHERE_OP_LT, WHERE_OP_LTE, WHERE_OP_GT, WHERE_OP_GTE,
            WHERE_OP_NE, WHERE_OP_NE2}
OpsIn == {WHERE_OP_IN, WHERE_OP_NOT_IN}
OpsLike == {WHERE_OP_LIKE, WHERE_OP_ILIKE, WHERE_OP_NOT_LIKE, WHERE_OP_NOT_ILIKE,
            WHERE_OP_OR_LIKE, WHERE_OP_OR_ILIKE, WHERE_OP_OR_NOT_LIKE,
            WHERE_OP_OR_NOT_ILIKE}
Ops1Param == OpsLgte \cup OpsIn \cup OpsLike

\* the _parse_where_map dispatch table
ParseWhereMap(operation, items) ==
    CASE operation \in Ops1Param -> ParseWhere1Param(items)
      [] operation \in Ops0Param -> ParseWhere0Param(items)
      [] operation \in OpsBetween -> ParseWhereBetween(items)

\* a _parse_where_mapping that collects the pairs last to first
ParseWhereMappingBackwards(pairs) ==
    WhereCondArr(WHERE_OP_AND,
        [i \in DOMAIN pairs |->
            WhereCond(IF IsCommand(pairs[Len(pairs) + 1 - i][2]) THEN WHERE_OP_EQUAL
                      ELSE IF IsSequence(pairs[Len(pairs) + 1 - i][2]) THEN WHERE_OP_IN
                      ELSE IF pairs[Len(pairs) + 1 - i][2] = None THEN WHERE_OP_IS_NULL
                      ELSE WHERE_OP_EQUAL,
                      pairs[Len(pairs) + 1 - i][1], pairs[Len(pairs) + 1 - i][2])])

\* _parse_where_mapping: one WhereCond per pair, under an AND
ParseWhereMapping(pairs) ==
    WhereCondArr(WHERE_OP_AND,
        [i \in DOMAIN pairs |->
            LET ident == pairs[i][1]
                value == pairs[i][2]
                op2 == IF IsCommand(value) THEN WHERE_OP_EQUAL
                       ELSE IF IsSequence(value) THEN WHERE_OP_IN
                       ELSE IF value = None THEN WHERE_OP_IS_NULL
                       ELSE WHERE_OP_EQUAL
            IN  WhereCond(op2, ident, value)])

FirstError(nodes) ==
    LET i == CHOOSE j \in DOMAIN nodes :
                 IsError(nodes[j]) /\ \A k \in 1..(j - 1) : ~IsError(nodes[k])
    IN  nodes[i]

RECURSIVE ParseWhereCond(_)

\* _parse_where_list; <<"none">> is its None
ParseWhereList(cond) ==
    LET items == Items(cond) IN
    IF Len(items) = 0 THEN ParseError("IndexError")
    ELSE IF ~IsStr(items[1]) THEN ParseError("AttributeError")
    ELSE LET operation == Lower(items[1][2]) IN
         IF operation \in WHERE_COMP_OPS
         THEN LET conds == [i \in 1..(Len(items) - 1) |-> ParseWhereCond(items[i + 1])]
              IN  IF \E i \in DOMAIN conds : IsError(conds[i])
                  THEN FirstError(conds)
                  ELSE WhereCondArr(operation, conds)
         ELSE IF operation \in Ops1Param \cup Ops0Param \cup OpsBetween
         THEN ParseWhereMap(operation, items)
         ELSE IF Len(items) = 2
         THEN WhereCond(IF IsSequence(items[2]) THEN WHERE_OP_IN ELSE WHERE_OP_EQUAL,
                        items[1], items[2])
         ELSE None

\* _parse_where_cond
ParseWhereCond(cond) ==
    IF IsWhereCond(cond) THEN cond
    ELSE IF IsWhereCondArr(cond) THEN cond
    ELSE IF Tag(cond) \in {"bool", "num"} THEN WhereCondRaw(cond)
    ELSE IF IsStr(cond) THEN ParseWhereStr(cond[2])
    ELSE IF IsSequence(cond)
    THEN LET res == ParseWhereList(cond)
         IN  IF res /= None THEN res
             ELSE ParseError("Unknown format of the where condition")
    ELSE IF IsMapping(cond) THEN ParseWhereMapping(cond[2])
    ELSE IF IsComposable(cond) THEN WhereCondRaw(cond)
    ELSE ParseError("Unknown format of the where condition")

----------------------------------------------------------------------------
(* behaviours.py: WhereBehaviour, the and_where / or_where fold *)

\* the truth value of self._where: None is false, every node is a non-empty tuple
Truthy(where) == where /= None

\* a _where_arr that always wraps the root and the condition in a new group
WhereArrWrap(where, cond_parsed, cond_op) ==
    WhereCondArr(cond_op, (IF Truthy(where) THEN <<where>> ELSE <<>>) \o <<cond_parsed>>)

\* a _where_arr that adds to the root whenever it is a group, whatever its operator
WhereArrAnyGroup(where, cond_parsed, cond_op) ==
    IF IsWhereCondArr(where)
    THEN IF IsWhereCondArr(cond_parsed) /\ cond_parsed[2] = cond_op
         THEN WhereCondArr(where[2], where[3] \o cond_parsed[3])
         ELSE WhereCondArr(where[2], Append(where[3], cond_parsed))
    ELSE IF IsWhereCondArr(cond_parsed) /\ cond_parsed[2] = cond_op /\ where = None
    THEN cond_parsed
    ELSE WhereCondArr(cond_op,
                      (IF Truthy(where) THEN <<where>> ELSE <<>>) \o <<cond_parsed>>)

\* a _where_arr that appends a group of the same operator instead of extending with it
WhereArrAppend(where, cond_parsed, cond_op) ==
    IF IsWhereCondArr(where) /\ where[2] = cond_op
    THEN WhereCondArr(where[2], Append(where[3], cond_parsed))
    ELSE IF IsWhereCondArr(cond_parsed) /\ cond_parsed[2] = cond_op /\ where = None
    THEN cond_parsed
    ELSE WhereCondArr(cond_op,
                      (IF Truthy(where) THEN <<where>> ELSE <<>>) \o <<cond_parsed>>)

\* _where_arr, given the parsed condition: the new self._where
WhereArr(where, cond_parsed, cond_op) ==
    IF IsWhereCondArr(where) /\ where[2] = cond_op
    THEN IF IsWhereCondArr(cond_parsed) /\ cond_parsed[2] = cond_op
         THEN WhereCondArr(where[2], where[3] \o cond_parsed[3])
         ELSE WhereCondArr(where[2], Append(where[3], cond_parsed))
    ELSE IF IsWhereCondArr(cond_parsed) /\ cond_parsed[2] = cond_op /\ where = None
    THEN cond_parsed
    ELSE WhereCondArr(cond_op,
                      (IF Truthy(where) THEN <<where>> ELSE <<>>) \o <<cond_parsed>>)

\* the branch of _where_arr that changes the list self._where.conds in place
InPlace(where, cond_op) == IsWhereCondArr(where) /\ where[2] = cond_op

\* A WhereCondArr is a namedtuple holding a list, and _parse_where_cond returns the one
\* it is given: the statement then refers to the caller's object. Such an object is
\* kept as its present value (group) and the places where each statement refers to it
\* (at): paths of child indices into the statement's tree, <<>> for self._where itself.

\* the places of the object in a statement after _where_arr; given says that the
\* condition passed is the object
PlacesAfterWhereArr(places, where, cond_parsed, cond_op, given) ==
    IF InPlace(where, cond_op)
    THEN places \cup (IF given /\ ~InPlace(cond_parsed, cond_op)
                      THEN {<<Len(where[3]) + 1>>} ELSE {})
    ELSE IF InPlace(cond_parsed, cond_op) /\ where = None
    THEN (IF given THEN {<<>>} ELSE {})
    ELSE {<<1>> \o place : place \in places}
         \cup (IF given THEN {<<IF Truthy(where) THEN 2 ELSE 1>>} ELSE {})

\* the tree with the object's present value at each of its places; here is the path of
\* the tree within the statement's tree
RECURSIVE Refreshed(_, _, _, _)
Refreshed(tree, places, group, here) ==
    IF here \in places THEN group
    ELSE IF IsWhereCondArr(tree)
    THEN WhereCondArr(tree[2], [i \in DOMAIN tree[3] |->
                                   Refreshed(tree[3][i], places, group, here \o <<i>>)])
    ELSE tree

----------------------------------------------------------------------------
(* the statement objects *)

Alias(ident, alias) == <<"alias", ident, alias>>
IsAlias(v) == Tag(v) = "alias"

\* misc.py: WithSubquery, Join and Order
WithSubquery(subquery, recursive) == <<"with_subquery", subquery, recursive>>
Join(join_type, alias, on, lateral) == <<"join", join_type, alias, on, lateral>>
Order(ident, sort) == <<"order", ident, sort>>
IsOrder(v) == Tag(v) = "order"

\* constants.py: the join types and sort directions, as test_join and test_order show them
JOIN_INNER == ""
JOIN_LEFT == "LEFT"
JOIN_RIGHT == "RIGHT"
JOIN_FULL == "FULL"
ORDER_ASC == <<"A", "S", "C">>
ORDER_DESC == <<"D", "E", "S", "C">>

\* bool(v) for the values a statement field holds
PyTruthy(v) ==
    CASE Tag(v) = "none" -> FALSE
      [] Tag(v) = "bool" -> v[2]
      [] Tag(v) = "num" -> v[2] /= 0
      [] Tag(v) \in {"str", "list", "tuple", "map"} -> Len(v[2]) > 0
      [] OTHER -> TRUE

\* the fields a builder object holds after its constructor ran with only conn
NewStatement(kind) ==
    [ kind |-> kind,
      user_params |-> EmptyDict,
      where |-> None,
      with |-> <<>>,
      from |-> <<>>,
      returning |-> <<>>,
      table |-> None,
      fields |-> <<>>,
      columns |-> <<>>,
      values |-> None,
      select |-> <<>>,
      join |-> <<>>,
      group |-> <<>>,
      order |-> <<>>,
      limit |-> None ]

\* BaseCommand.get_params
GetParams(stmt) == stmt.user_params

\* a BuildContext that keeps the statement's own dict instead of a copy of it
UserParamsShared(user_params, ctx_params) == ctx_params

\* BuildContext.__init__ copies the user parameters (user_params.copy()), so what
\* the build writes into ctx.params never reaches the statement's own dict
UserParamsAfterBuild(user_params, ctx_params) == user_params

WhiteChars == {" ", "\t", "\n"}

\* the length of the longest prefix of chars made of characters of the set cs
PrefixLen(chars, cs) ==
    CHOOSE n \in 0..Len(chars) :
        /\ \A i \in 1..n : chars[i] \in cs
        /\ (n = Len(chars) \/ chars[n + 1] \notin cs)

Drop(chars, n) == SubSeq(chars, n + 1, Len(chars))

\* re.fullmatch(r'^([\w\.]+)\s+(as\s+)?(\w+)$', val, re.IGNORECASE): <<group 1, group 3>>,
\* or <<>> when the text does not match
AliasMatch(val) ==
    LET n1 == PrefixLen(val, WordChars \cup {"."})
        r1 == Drop(val, n1)
        n2 == PrefixLen(r1, WhiteChars)
        r2 == Drop(r1, n2)
        r3 == Drop(r2, 2)
        n3 == PrefixLen(r3, WhiteChars)
        r4 == Drop(r3, n3)
    IN  IF n1 = 0 \/ n2 = 0 THEN <<>>
        ELSE IF Len(r2) >= 2 /\ Lower(SubSeq(r2, 1, 2)) = <<"a", "s">> /\ n3 > 0
                /\ ValidIdentifier(r4)
        THEN <<SubSeq(val, 1, n1), r4>>
        ELSE IF ValidIdentifier(r2) THEN <<SubSeq(val, 1, n1), r2>>
        ELSE <<>>

\* BaseCommand.parse_column_or_table
ParseColumnOrTable(val, alias) ==
    IF IsAlias(val) THEN val
    ELSE IF alias = None /\ IsStr(val) /\ AliasMatch(val[2]) /= <<>>
    THEN Alias(PyStr(AliasMatch(val[2])[1]), PyStr(AliasMatch(val[2])[2]))
    ELSE Alias(val, alias)

----------------------------------------------------------------------------
(* base.py and behaviours.py: the build pass *)

RECURSIVE BuildQuery(_, _, _)
RECURSIVE BuildSubquery(_, _)
RECURSIVE QuoteString(_, _)
RECURSIVE WhereIter(_, _)
RECURSIVE MapCtx(_, _, _)

\* "name = value" followed by the statements F that use the name; value is a record
\* or a sequence and is evaluated here, before F, whether or not it is empty
Then(value, F(_)) == IF DOMAIN value = {} THEN F(value) ELSE F(value)

\* a loop or comprehension that calls F(item, ctx) for each item in turn
MapCtx(F(_, _), items, ctx) ==
    IF items = <<>> THEN [rs |-> <<>>, ctx |-> ctx]
    ELSE Then(F(Head(items), ctx), LAMBDA r :
         Then(MapCtx(F, Tail(items), r.ctx), LAMBDA rest :
              [rs |-> <<r>> \o rest.rs, ctx |-> rest.ctx]))

Qs(rs) == [i \in DOMAIN rs |-> rs[i].q]

\* BaseCommand.build_subquery: the BuiltCommand of the subquery and the parent context
\* after the call
BuildSubquery(subquery, ctx) ==
    Then(BuildQuery(ctx.store, subquery, "p" \o ToString(ctx.subqueries_built) \o "_"),
         LAMBDA res :
            [ query |-> res.query,
              params |-> res.params,
              ctx |-> [ctx EXCEPT
                         !.store = res.store,
                         !.params = DictMerge(ctx.params, GetParams(res.store[subquery])),
                         !.subqueries_built = ctx.subqueries_built + 1,
                         !.error = IF ctx.error /= "" THEN ctx.error ELSE res.error,
                         !.subs = Append(ctx.subs, [stmt |-> subquery,
                                                    prefix |-> res.prefix,
                                                    binds |-> res.binds,
                                                    params |-> res.params,
                                                    subs |-> res.subs])] ])

\* BaseCommand.quote_string
QuoteString(val, ctx) ==
    IF IsComposable(val) THEN Res(val[2], ctx)
    ELSE IF IsCommand(val)
    THEN Then(BuildSubquery(val[2], ctx), LAMBDA built_cmd :
              Res(<<"(" \o AsString(built_cmd.query) \o ")">>, built_cmd.ctx))
    ELSE IF IsAlias(val)
    THEN Then(QuoteString(val[2], ctx), LAMBDA quoted_ident :
              IF val[3] = None THEN quoted_ident
              ELSE Then(QuoteString(val[3], quoted_ident.ctx), LAMBDA quoted_alias :
                        Res(quoted_ident.q \o <<" AS ">> \o quoted_alias.q,
                            quoted_alias.ctx)))
    ELSE IF Tag(val) = "expr" THEN Res(<<Str(val[2])>>, ctx)
    ELSE IF ~IsStr(val) THEN Res(Literal(val), ctx)
    ELSE IF HasParen(val[2]) THEN Res(<<Str(val[2])>>, ctx)
    ELSE Res(QuoteWords(val[2]), ctx)

\* a _place_value that writes the value into the text
PlaceValueInline(value, ctx) ==
    IF IsComposable(value) THEN Res(value[2], ctx)
    ELSE IF Tag(value) = "expr" THEN QuoteString(PyStr(value[2]), ctx)
    ELSE IF IsCommand(value) THEN QuoteString(value, ctx)
    ELSE Res(Literal(value), ctx)

\* BaseCommand._place_value
PlaceValue(value, ctx) ==
    IF IsComposable(value) THEN Res(value[2], ctx)
    ELSE IF Tag(value) = "expr" THEN QuoteString(PyStr(value[2]), ctx)
    ELSE IF IsCommand(value) THEN QuoteString(value, ctx)
    ELSE SetParam(ctx, value, FALSE)

\* _build_query_where_is_null
WhereIsNull(cond, ctx) ==
    Then(QuoteString(cond[3], ctx), LAMBDA ident :
         Res(ident.q \o <<" ">> \o <<Str(Upper(cond[2]))>>, ident.ctx))

\* _build_query_where_not
WhereNot(cond, ctx) ==
    Then(QuoteString(cond[3], ctx), LAMBDA ident :
         Res(<<Str(Upper(cond[2])) \o " ">> \o ident.q, ident.ctx))

\* _build_query_where_exists
WhereExists(cond, ctx) ==
    Then(QuoteString(cond[3], ctx), LAMBDA ident :
         Res(<<Str(Upper(cond[2])) \o " ">> \o ident.q, ident.ctx))

\* tuple(value) of a non-str iterable: a dict gives its keys
TupleOf(value) ==
    CASE Tag(value) \in {"list", "tuple"} -> value[2]
      [] Tag(value) = "map" -> [i \in DOMAIN value[2] |-> value[2][i][1]]
      [] OTHER -> Items(value)

\* the value of an IN leaf as a tuple
InTuple(value) ==
    IF Tag(value) = "tuple" THEN value[2]
    ELSE IF IsStr(value) THEN <<value>> ELSE TupleOf(value)

\* a _build_query_where_in that binds the tuple even when it is empty
WhereInBindsEmpty(cond, ctx) ==
    IF IsCommand(cond[4])
    THEN Then(BuildSubquery(cond[4][2], ctx), LAMBDA built_cmd :
         Then(QuoteString(cond[3], built_cmd.ctx), LAMBDA ident :
              Res(ident.q \o <<" " \o Str(Upper(cond[2])) \o " ">>
                  \o (<<"(">> \o built_cmd.query \o <<")">>), ident.ctx)))
    ELSE IF ~(IsStr(cond[4]) \/ IsIterable(cond[4]))
    THEN Res(<<>>, Raise(ctx, "TypeError: object is not iterable"))
    ELSE Then(SetParam(ctx, PyTuple(InTuple(cond[4])), FALSE), LAMBDA placeholder :
         Then(QuoteString(cond[3], placeholder.ctx), LAMBDA ident :
              Res(ident.q \o <<" " \o Str(Upper(cond[2])) \o " ">> \o placeholder.q,
                  ident.ctx)))

\* _build_query_where_in
WhereIn(cond, ctx) ==
    IF IsCommand(cond[4])
    THEN Then(BuildSubquery(cond[4][2], ctx), LAMBDA built_cmd :
         Then(QuoteString(cond[3], built_cmd.ctx), LAMBDA ident :
              Res(ident.q \o <<" " \o Str(Upper(cond[2])) \o " ">>
                  \o (<<"(">> \o built_cmd.query \o <<")">>), ident.ctx)))
    ELSE IF ~(IsStr(cond[4]) \/ IsIterable(cond[4]))
    THEN Res(<<>>, Raise(ctx, "TypeError: object is not iterable"))
    ELSE IF Len(InTuple(cond[4])) = 0 THEN Res(<<"false">>, ctx)
    ELSE Then(SetParam(ctx, PyTuple(InTuple(cond[4])), FALSE), LAMBDA placeholder :
         Then(QuoteString(cond[3], placeholder.ctx), LAMBDA ident :
              Res(ident.q \o <<" " \o Str(Upper(cond[2])) \o " ">> \o placeholder.q,
                  ident.ctx)))

\* cond.op in ['=', '<>', '!=']
IsEqOp(op) == op \in {WHERE_OP_EQUAL, WHERE_OP_NE, WHERE_OP_NE2}

\* a _build_query_where_lgte that collapses <> and != the way it collapses =
WhereLgteOneWay(cond, ctx) ==
    IF IsCommand(cond[4])
    THEN \* sql.SQL('(') + built_cmd.as_string(): a Composable and a str do not add
         Then(BuildSubquery(cond[4][2], ctx), LAMBDA built_cmd :
              Res(<<>>, Raise(built_cmd.ctx,
                     "TypeError: unsupported operand type(s) for +: 'SQL' and 'str'")))
    ELSE IF IsEqOp(cond[2]) /\ IsIterable(cond[4])
    THEN WhereIn(WhereCond(WHERE_OP_IN, cond[3], cond[4]), ctx)
    ELSE IF IsEqOp(cond[2]) /\ Tag(cond[4]) = "bool"
    THEN IF (IF cond[2] /= WHERE_OP_EQUAL THEN ~cond[4][2] ELSE cond[4][2])
         THEN QuoteString(cond[3], ctx)
         ELSE WhereNot(WhereCond(WHERE_OP_NOT, cond[3], None), ctx)
    ELSE IF IsEqOp(cond[2]) /\ cond[4] = None
    THEN WhereIsNull(WhereCond(WHERE_OP_IS_NULL, cond[3], None), ctx)
    ELSE Then(SetParam(ctx, cond[4], FALSE), LAMBDA placeholder :
         Then(QuoteString(cond[3], placeholder.ctx), LAMBDA ident :
              Res(ident.q \o <<" " \o Str(cond[2]) \o " ">> \o placeholder.q, ident.ctx)))

\* a _build_query_where_lgte that reads a boolean the same way under = and under <> / !=
WhereLgteSameWay(cond, ctx) ==
    IF IsCommand(cond[4])
    THEN \* sql.SQL('(') + built_cmd.as_string(): a Composable and a str do not add
         Then(BuildSubquery(cond[4][2], ctx), LAMBDA built_cmd :
              Res(<<>>, Raise(built_cmd.ctx,
                     "TypeError: unsupported operand type(s) for +: 'SQL' and 'str'")))
    ELSE IF IsEqOp(cond[2]) /\ IsIterable(cond[4])
    THEN WhereIn(WhereCond(IF cond[2] = WHERE_OP_EQUAL THEN WHERE_OP_IN
                           ELSE WHERE_OP_NOT_IN, cond[3], cond[4]), ctx)
    ELSE IF IsEqOp(cond[2]) /\ Tag(cond[4]) = "bool"
    THEN IF cond[4][2]
         THEN QuoteString(cond[3], ctx)
         ELSE WhereNot(WhereCond(WHERE_OP_NOT, cond[3], None), ctx)
    ELSE IF IsEqOp(cond[2]) /\ cond[4] = None
    THEN WhereIsNull(WhereCond(IF cond[2] = WHERE_OP_EQUAL THEN WHERE_OP_IS_NULL
                               ELSE WHERE_OP_IS_NOT_NULL, cond[3], None), ctx)
    ELSE Then(SetParam(ctx, cond[4], FALSE), LAMBDA placeholder :
         Then(QuoteString(cond[3], placeholder.ctx), LAMBDA ident :
              Res(ident.q \o <<" " \o Str(cond[2]) \o " ">> \o placeholder.q, ident.ctx)))

\* _build_query_where_lgte
WhereLgte(cond, ctx) ==
    IF IsCommand(cond[4])
    THEN \* sql.SQL('(') + built_cmd.as_string(): a Composable and a str do not add
         Then(BuildSubquery(cond[4][2], ctx), LAMBDA built_cmd :
              Res(<<>>, Raise(built_cmd.ctx,
                     "TypeError: unsupported operand type(s) for +: 'SQL' and 'str'")))
    ELSE IF IsEqOp(cond[2]) /\ IsIterable(cond[4])
    THEN WhereIn(WhereCond(IF cond[2] = WHERE_OP_EQUAL THEN WHERE_OP_IN
                           ELSE WHERE_OP_NOT_IN, cond[3], cond[4]), ctx)
    ELSE IF IsEqOp(cond[2]) /\ Tag(cond[4]) = "bool"
    THEN IF (IF cond[2] /= WHERE_OP_EQUAL THEN ~cond[4][2] ELSE cond[4][2])
         THEN QuoteString(cond[3], ctx)
         ELSE WhereNot(WhereCond(WHERE_OP_NOT, cond[3], None), ctx)
    ELSE IF IsEqOp(cond[2]) /\ cond[4] = None
    THEN WhereIsNull(WhereCond(IF cond[2] = WHERE_OP_EQUAL THEN WHERE_OP_IS_NULL
                               ELSE WHERE_OP_IS_NOT_NULL, cond[3], None), ctx)
    ELSE Then(SetParam(ctx, cond[4], FALSE), LAMBDA placeholder :
         Then(QuoteString(cond[3], placeholder.ctx), LAMBDA ident :
              Res(ident.q \o <<" " \o Str(cond[2]) \o " ">> \o placeholder.q, ident.ctx)))

\* value.replace('$', '$$').replace('%', '$%')
LikeEscape(chars) ==
    Flatten([i \in DOMAIN chars |->
                IF chars[i] = "$" THEN <<"$", "$">>
                ELSE IF chars[i] = "%" THEN <<"$", "%">>
                ELSE <<chars[i]>>])

HasPercent(chars) == \E i \in DOMAIN chars : chars[i] = "%"

\* a LIKE pattern that stays between % and % when the value is escaped
LikePatternPercent(chars) ==
    IF HasPercent(chars) THEN <<"%">> \o LikeEscape(chars) \o <<"%">>
    ELSE <<"%">> \o chars \o <<"%">>

\* the parameter bound for one LIKE value: '{esc_char}{}{esc_char}'.format(value)
LikePattern(chars) ==
    IF HasPercent(chars) THEN <<"$">> \o LikeEscape(chars) \o <<"$">>
    ELSE <<"%">> \o chars \o <<"%">>

\* the body of the loop of _build_query_where_like, for one value
WhereLikeOne(cond, operation, value, ctx) ==
    IF ~IsStr(value)
    THEN Res(<<>>, Raise(ctx, "TypeError: argument of type is not iterable"))
    ELSE Then(QuoteString(cond[3], ctx), LAMBDA ident :
         Then(SetParam(ident.ctx, PyStr(LikePattern(value[2])), FALSE), LAMBDA placeholder :
              Res(ident.q \o <<" ", Str(Upper(operation)), " ">> \o placeholder.q
                  \o <<IF HasPercent(value[2]) THEN " ESCAPE '$'" ELSE "">>,
                  placeholder.ctx)))

\* the operation and the combinator _build_query_where_like works with
LikeOperation(op) ==
    CASE op = WHERE_OP_OR_LIKE -> WHERE_OP_LIKE
      [] op = WHERE_OP_OR_ILIKE -> WHERE_OP_ILIKE
      [] op = WHERE_OP_OR_NOT_LIKE -> WHERE_OP_NOT_LIKE
      [] op = WHERE_OP_OR_NOT_ILIKE -> WHERE_OP_NOT_ILIKE
      [] OTHER -> op
LikeCombinator(op) ==
    IF op \in {WHERE_OP_OR_LIKE, WHERE_OP_OR_ILIKE, WHERE_OP_OR_NOT_LIKE,
               WHERE_OP_OR_NOT_ILIKE}
    THEN WHERE_OP_OR ELSE WHERE_OP_AND

\* _build_query_where_like
WhereLike(cond, ctx) ==
    IF ~(IsStr(cond[4]) \/ IsIterable(cond[4]))
    THEN Res(<<>>, Raise(ctx, "TypeError: object is not iterable"))
    ELSE LET One(value, c) == WhereLikeOne(cond, LikeOperation(cond[2]), value, c)
         IN  Then(MapCtx(One, IF IsStr(cond[4]) THEN <<cond[4]>> ELSE TupleOf(cond[4]), ctx),
                  LAMBDA conds :
                     IF Len(conds.rs) > 0
                     THEN Res(<<"(">>
                              \o SqlJoin(" " \o Str(Upper(LikeCombinator(cond[2]))) \o " ",
                                         Qs(conds.rs))
                              \o <<")">>, conds.ctx)
                     ELSE ResNone(conds.ctx))

\* _build_query_where_between
WhereBetween(cond, ctx) ==
    IF ~(Tag(cond[4]) \in {"list", "tuple"} /\ Len(cond[4][2]) = 2)
    THEN Res(<<>>, Raise(ctx, "ValueError: cannot unpack the bounds"))
    ELSE Then(SetParam(ctx, cond[4][2][1], FALSE), LAMBDA param1 :
         Then(SetParam(param1.ctx, cond[4][2][2], FALSE), LAMBDA param2 :
         Then(QuoteString(cond[3], param2.ctx), LAMBDA ident :
              Res(ident.q \o <<" ", Str(Upper(cond[2])), " ">> \o param1.q
                  \o <<" AND ">> \o param2.q, ident.ctx))))

\* the _build_query_where_map dispatch table
WhereMap(cond, ctx) ==
    CASE cond[2] \in OpsLgte -> WhereLgte(cond, ctx)
      [] cond[2] \in OpsIn -> WhereIn(cond, ctx)
      [] cond[2] \in OpsLike -> WhereLike(cond, ctx)
      [] cond[2] = WHERE_OP_NOT -> WhereNot(cond, ctx)
      [] cond[2] \in OpsBetween -> WhereBetween(cond, ctx)
      [] cond[2] \in {WHERE_OP_EXISTS, WHERE_OP_NOT_EXISTS} -> WhereExists(cond, ctx)
      [] cond[2] \in {WHERE_OP_IS_NULL, WHERE_OP_IS_NOT_NULL} -> WhereIsNull(cond, ctx)

\* the renderings that are not None, in order
RECURSIVE Present(_)
Present(rs) ==
    IF rs = <<>> THEN <<>>
    ELSE (IF Head(rs).isNone THEN <<>> ELSE <<Head(rs).q>>) \o Present(Tail(rs))

\* '(' + cond + ')' for each rendering
Bracketed(conds) == [i \in DOMAIN conds |-> <<"(">> \o conds[i] \o <<")">>]

\* _build_query_where_iter
WhereIter(cond, ctx) ==
    IF IsWhereCondArr(cond)
    THEN Then(MapCtx(WhereIter, cond[3], ctx), LAMBDA all :
         Then(Present(all.rs), LAMBDA conds :
              IF Len(conds) = 0 THEN ResNone(all.ctx)
              ELSE Res(SqlJoin(" " \o Str(Upper(cond[2])) \o " ", Bracketed(conds)),
                       all.ctx)))
    ELSE IF IsWhereCond(cond)
    THEN IF cond[2] \in Ops1Param \cup Ops0Param \cup OpsBetween
         THEN WhereMap(cond, ctx)
         ELSE Res(<<>>, Raise(ctx, "Unknown where operator"))
    ELSE IF IsWhereCondRaw(cond)
    THEN IF IsStr(cond[2]) THEN QuoteString(cond[2], ctx)
         ELSE IF IsComposable(cond[2]) THEN Res(cond[2][2], ctx)
         ELSE Res(Literal(cond[2]), ctx)
    ELSE ResNone(ctx)

\* a _build_query_where that writes the keyword whatever the tree renders to
BuildQueryWhereAlways(stmt, ctx) ==
    IF stmt.where = None THEN ResNone(ctx)
    ELSE Then(WhereIter(stmt.where, ctx), LAMBDA res : Res(<<"WHERE ">> \o res.q, res.ctx))

\* WhereBehaviour._build_query_where
BuildQueryWhere(stmt, ctx) ==
    IF stmt.where = None THEN ResNone(ctx)
    ELSE Then(WhereIter(stmt.where, ctx), LAMBDA res :
              IF res.isNone THEN ResNone(res.ctx)
              ELSE Res(<<"WHERE ">> \o res.q, res.ctx))

----------------------------------------------------------------------------
(* the clause builders and the statement assemblers *)

\* sql.SQL(' ').join([p for p in parts if p is not None]), with the context after the
\* last part
Assemble(parts) ==
    Res(SqlJoin(" ", Present(parts.rs)), parts.ctx)

\* the subquery of one WITH entry: a statement is built, a str is taken as it is
BuildWithBody(ident, ctx) ==
    IF IsCommand(ident) THEN BuildSubquery(ident[2], ctx)
    ELSE [query |-> <<Str(ident[2])>>, ctx |-> ctx]

\* one entry of WithBehaviour._build_query_with
BuildQueryWithOne(sub, ctx) ==
    Then(BuildWithBody(sub[2][2], ctx), LAMBDA built :
    Then(QuoteString(sub[2][3], built.ctx), LAMBDA alias :
         Res(<<IF sub[3] THEN "RECURSIVE " ELSE "">> \o alias.q \o <<" AS (">>
             \o built.query \o <<")">>, alias.ctx)))

\* WithBehaviour._build_query_with
BuildQueryWith(stmt, ctx) ==
    IF Len(stmt.with) = 0 THEN ResNone(ctx)
    ELSE Then(MapCtx(BuildQueryWithOne, stmt.with, ctx), LAMBDA subqueries :
              Res(<<"WITH ">> \o SqlJoin(", ", Qs(subqueries.rs)), subqueries.ctx))

\* FromBehaviour._build_query_from
BuildQueryFrom(stmt, ctx) ==
    IF Len(stmt.from) = 0 THEN ResNone(ctx)
    ELSE Then(MapCtx(QuoteString, stmt.from, ctx), LAMBDA items :
              Res(<<"FROM ">> \o SqlJoin(", ", Qs(items.rs)), items.ctx))

\* ReturningBehaviour._build_query_returning
BuildQueryReturning(stmt, ctx) ==
    IF Len(stmt.returning) = 0 THEN ResNone(ctx)
    ELSE Then(MapCtx(QuoteString, stmt.returning, ctx), LAMBDA items :
              Res(<<"RETURNING ">> \o SqlJoin(", ", Qs(items.rs)), items.ctx))

\* the message of the exception Delete._build_query_where raises
DeleteEmptyWhereError ==
    "Sorry empty WHERE block is restricted on DELETE operations for security reasons"

\* Delete._build_query_where
DeleteBuildQueryWhere(stmt, ctx) ==
    IF stmt.where = None
    THEN Res(<<>>, Raise(ctx, DeleteEmptyWhereError))
    ELSE BuildQueryWhere(stmt, ctx)

\* Delete._on_build_query: the parts of the list, each built in its turn
DeleteOnBuildQuery(stmt, ctx) ==
    LET Part(block, c) ==
            CASE block = "with" -> BuildQueryWith(stmt, c)
              [] block = "delete" -> Res(<<"DELETE">>, c)
              [] block = "from" -> BuildQueryFrom(stmt, c)
              [] block = "where" -> DeleteBuildQueryWhere(stmt, c)
              [] block = "returning" -> BuildQueryReturning(stmt, c)
    IN  Assemble(MapCtx(Part, <<"with", "delete", "from", "where", "returning">>, ctx))

\* the message of the exception Update._build_query_where raises
UpdateEmptyWhereError ==
    "Sorry empty WHERE block is restricted on UPDATE operations. Please call where(True) if you have to update all rows in the table"

\* a WHERE builder without the guard of Update and Delete
UnguardedBuildQueryWhere(stmt, ctx) == BuildQueryWhere(stmt, ctx)

\* Update._build_query_where
UpdateBuildQueryWhere(stmt, ctx) ==
    IF stmt.where = None
    THEN Res(<<>>, Raise(ctx, UpdateEmptyWhereError))
    ELSE BuildQueryWhere(stmt, ctx)

\* Update._build_query_update
BuildQueryUpdate(stmt, ctx) ==
    IF stmt.table = None THEN ResNone(ctx)
    ELSE Then(QuoteString(stmt.table, ctx), LAMBDA table :
              Res(<<"UPDATE ">> \o table.q, table.ctx))

\* one entry of Update._build_query_set
BuildQuerySetOne(pair, ctx) ==
    Then(QuoteString(pair[1], ctx), LAMBDA field :
    Then(PlaceValue(pair[2], field.ctx), LAMBDA value :
         Res(field.q \o <<"=">> \o value.q, value.ctx)))

\* Update._build_query_set
BuildQuerySet(stmt, ctx) ==
    Then(MapCtx(BuildQuerySetOne, stmt.fields, ctx), LAMBDA res :
         IF Len(res.rs) = 0 THEN ResNone(res.ctx)
         ELSE Res(<<"SET ">> \o SqlJoin(", ", Qs(res.rs)), res.ctx))

\* Update._on_build_query: the parts of the list, each built in its turn
UpdateOnBuildQuery(stmt, ctx) ==
    LET Part(block, c) ==
            CASE block = "with" -> BuildQueryWith(stmt, c)
              [] block = "update" -> BuildQueryUpdate(stmt, c)
              [] block = "set" -> BuildQuerySet(stmt, c)
              [] block = "where" -> UpdateBuildQueryWhere(stmt, c)
              [] block = "returning" -> BuildQueryReturning(stmt, c)
    IN  Assemble(MapCtx(Part, <<"with", "update", "set", "where", "returning">>, ctx))

\* Insert._build_query_insert_into
BuildQueryInsertInto(stmt, ctx) ==
    IF stmt.table = None THEN ResNone(ctx)
    ELSE Then(QuoteString(stmt.table, ctx), LAMBDA table :
              IF Len(stmt.columns) > 0
              THEN Then(MapCtx(QuoteString, stmt.columns, table.ctx), LAMBDA cols :
                        Res(<<"INSERT INTO ">> \o table.q \o <<"(">>
                            \o SqlJoin(", ", Qs(cols.rs)) \o <<")">>, cols.ctx))
              ELSE Res(<<"INSERT INTO ">> \o table.q, table.ctx))

\* key in mapping, mapping[key]
HasKey(pairs, key) == \E i \in DOMAIN pairs : pairs[i][1] = key
Lookup(pairs, key) == pairs[CHOOSE i \in DOMAIN pairs : pairs[i][1] = key][2]

\* a cell that binds None for a column the row does not hold
BuildQueryValuesCellBound(item, column, ctx) ==
    IF HasKey(item[2], column) THEN SetParam(ctx, Lookup(item[2], column), TRUE)
    ELSE SetParam(ctx, None, TRUE)

\* one cell of a VALUES row
BuildQueryValuesCell(item, column, ctx) ==
    IF HasKey(item[2], column)
    THEN IF IsCommand(Lookup(item[2], column))
         THEN \* sql.SQL('(') + BuiltCommand: a Composable and a BuiltCommand do not add
              Res(<<>>, Raise(BuildSubquery(Lookup(item[2], column)[2], ctx).ctx,
                     "TypeError: unsupported operand type(s) for +: 'SQL' and 'BuiltCommand'"))
         ELSE SetParam(ctx, Lookup(item[2], column), TRUE)
    ELSE Res(Literal(None), ctx)

\* one row of VALUES: a cell for each column, in brackets
BuildQueryValuesRow(stmt, item, ctx) ==
    LET Cell(column, c) == BuildQueryValuesCell(item, column, c)
    IN  Then(MapCtx(Cell, stmt.columns, ctx), LAMBDA row :
             Res(<<"(">> \o SqlJoin(", ", Qs(row.rs)) \o <<")">>, row.ctx))

\* Insert._build_query_values
BuildQueryValues(stmt, ctx) ==
    IF IsCommand(stmt.values)
    THEN Then(BuildSubquery(stmt.values[2], ctx), LAMBDA build_cmd :
              Res(build_cmd.query, build_cmd.ctx))
    ELSE IF Tag(stmt.values) = "list"
    THEN LET Row(item, c) == BuildQueryValuesRow(stmt, item, c)
         IN  Then(MapCtx(Row, stmt.values[2], ctx), LAMBDA res :
                  IF Len(res.rs) = 0 THEN ResNone(res.ctx)
                  ELSE Res(<<"VALUES ">> \o SqlJoin(", ", Qs(res.rs)), res.ctx))
    ELSE ResNone(ctx)

\* Insert._on_build_query; no ON CONFLICT block is set on the statements of the model
InsertOnBuildQuery(stmt, ctx) ==
    LET Part(block, c) ==
            CASE block = "with" -> BuildQueryWith(stmt, c)
              [] block = "insert_into" -> BuildQueryInsertInto(stmt, c)
              [] block = "values" -> BuildQueryValues(stmt, c)
              [] block = "on_conflict" -> ResNone(c)
              [] block = "returning" -> BuildQueryReturning(stmt, c)
    IN  Assemble(MapCtx(Part, <<"with", "insert_into", "values", "on_conflict",
                                "returning">>, ctx))

\* Query._build_query_select; DISTINCT is off and no Const field is selected in the model
BuildQuerySelect(stmt, ctx) ==
    IF Len(stmt.select) = 0 THEN Res(<<"SELECT">>, ctx)
    ELSE Then(MapCtx(QuoteString, stmt.select, ctx), LAMBDA fields :
              Res(<<"SELECT">> \o <<" ">> \o SqlJoin(", ", Qs(fields.rs)), fields.ctx))

\* one entry of Query._build_query_join: sql.SQL(' ON ') + None is a TypeError
BuildQueryJoinOne(j, ctx) ==
    Then(QuoteString(j[3], ctx), LAMBDA table :
         IF j[4] = None
         THEN Res(<<j[2], " JOIN", IF j[5] THEN " LATERAL" ELSE "", " ">> \o table.q,
                  table.ctx)
         ELSE Then(WhereIter(j[4], table.ctx), LAMBDA on :
                   IF on.isNone
                   THEN Res(<<>>, Raise(on.ctx,
                            "TypeError: unsupported operand type(s) for +: 'SQL' and 'NoneType'"))
                   ELSE Res(<<j[2], " JOIN", IF j[5] THEN " LATERAL" ELSE "", " ">>
                            \o table.q \o <<" ON ">> \o on.q, on.ctx)))

\* Query._build_query_join
BuildQueryJoin(stmt, ctx) ==
    IF Len(stmt.join) = 0 THEN ResNone(ctx)
    ELSE Then(MapCtx(BuildQueryJoinOne, stmt.join, ctx), LAMBDA res :
              Res(SqlJoin(" ", Qs(res.rs)), res.ctx))

\* Query._build_query_group
BuildQueryGroup(stmt, ctx) ==
    IF Len(stmt.group) = 0 THEN ResNone(ctx)
    ELSE Then(MapCtx(QuoteString, stmt.group, ctx), LAMBDA fields :
              Res(<<"GROUP BY ">> \o SqlJoin(", ", Qs(fields.rs)), fields.ctx))

\* one entry of Query._build_query_order
BuildQueryOrderOne(o, ctx) ==
    Then(QuoteString(o[2], ctx), LAMBDA ident :
         Res(ident.q \o <<IF PyTruthy(o[3]) THEN " " \o Str(o[3][2]) ELSE "">>, ident.ctx))

\* Query._build_query_order
BuildQueryOrder(stmt, ctx) ==
    IF Len(stmt.order) = 0 THEN ResNone(ctx)
    ELSE Then(MapCtx(BuildQueryOrderOne, stmt.order, ctx), LAMBDA fields :
              Res(<<"ORDER BY ">> \o SqlJoin(", ", Qs(fields.rs)), fields.ctx))

\* a _build_query_limit that leaves the block out for None only
BuildQueryLimitNotNone(stmt, ctx) ==
    IF stmt.limit /= None THEN Res(<<"LIMIT ">> \o Literal(stmt.limit), ctx)
    ELSE ResNone(ctx)

\* Query._build_query_limit
BuildQueryLimit(stmt, ctx) ==
    IF PyTruthy(stmt.limit) THEN Res(<<"LIMIT ">> \o Literal(stmt.limit), ctx)
    ELSE ResNone(ctx)

\* a variant of Query._on_build_query that puts WHERE before JOIN
QueryOnBuildQueryWhereFirst(stmt, ctx) ==
    Then(BuildQueryWith(stmt, ctx), LAMBDA with :
    Then(BuildQuerySelect(stmt, with.ctx), LAMBDA select :
    Then(BuildQueryFrom(stmt, select.ctx), LAMBDA from :
    Then(BuildQueryWhere(stmt, from.ctx), LAMBDA where :
    Then(BuildQueryJoin(stmt, where.ctx), LAMBDA join :
    Then(BuildQueryGroup(stmt, join.ctx), LAMBDA group :
    Then(BuildQueryOrder(stmt, group.ctx), LAMBDA order :
    Then(BuildQueryLimit(stmt, order.ctx), LAMBDA limit :
         Assemble([rs |-> <<with, select, from, where, join, group, order, limit>>,
                   ctx |-> limit.ctx])))))))))

\* Query._on_build_query
QueryOnBuildQuery(stmt, ctx) ==
    Then(BuildQueryWith(stmt, ctx), LAMBDA with :
    Then(BuildQuerySelect(stmt, with.ctx), LAMBDA select :
    Then(BuildQueryFrom(stmt, select.ctx), LAMBDA from :
    Then(BuildQueryJoin(stmt, from.ctx), LAMBDA join :
    Then(BuildQueryWhere(stmt, join.ctx), LAMBDA where :
    Then(BuildQueryGroup(stmt, where.ctx), LAMBDA group :
    Then(BuildQueryOrder(stmt, group.ctx), LAMBDA order :
    Then(BuildQueryLimit(stmt, order.ctx), LAMBDA limit :
         Assemble([rs |-> <<with, select, from, join, where, group, order, limit>>,
                   ctx |-> limit.ctx])))))))))

\* the _on_build_query of the statement's class
OnBuildQuery(stmt, ctx) ==
    CASE stmt.kind = "Delete" -> DeleteOnBuildQuery(stmt, ctx)
      [] stmt.kind = "Update" -> UpdateOnBuildQuery(stmt, ctx)
      [] stmt.kind = "Insert" -> InsertOnBuildQuery(stmt, ctx)
      [] stmt.kind = "Query" -> QueryOnBuildQuery(stmt, ctx)

\* the BuiltCommand of a finished pass, or the exception raised, with the object store
\* after the call
BuiltResult(id, prefix, res) ==
    [ error |-> res.ctx.error,
      query |-> res.q,
      params |-> res.ctx.params,
      prefix |-> prefix,
      binds |-> res.ctx.binds,
      subs |-> res.ctx.subs,
      store |-> [res.ctx.store EXCEPT ![id].user_params =
                    UserParamsAfterBuild(res.ctx.store[id].user_params, res.ctx.params)] ]

\* BaseCommand.build_query
BuildQuery(store, id, param_name_prefix) ==
    Then(BuildContext(store[id].user_params, param_name_prefix, store), LAMBDA ctx :
         BuiltResult(id, ctx.param_name_prefix, OnBuildQuery(store[id], ctx)))

----------------------------------------------------------------------------
(* the fluent methods *)

\* WhereBehaviour.where: the new fields, with the exception raised if any
WhereOp(stmt, cond) ==
    LET parsed == ParseWhereCond(cond)
    IN  IF IsError(parsed) THEN [stmt |-> stmt, error |-> parsed[2]]
        ELSE [stmt |-> [stmt EXCEPT !.where = parsed], error |-> ""]

\* WhereBehaviour.and_where, or_where
WhereArrOp(stmt, cond, cond_op) ==
    LET parsed == ParseWhereCond(cond)
    IN  IF IsError(parsed) THEN [stmt |-> stmt, error |-> parsed[2]]
        ELSE [stmt |-> [stmt EXCEPT !.where = WhereArr(stmt.where, parsed, cond_op)],
              error |-> ""]

\* FromBehaviour.from_
FromOp(stmt, table, alias) ==
    [stmt EXCEPT !.from = <<ParseColumnOrTable(table, alias)>>]

\* TableBehaviour.table
TableOp(stmt, table, alias) ==
    [stmt EXCEPT !.table = ParseColumnOrTable(table, alias)]

\* BaseCommand.add_param
AddParamOp(stmt, param_name, value, json_stringify) ==
    [stmt EXCEPT !.user_params =
        DictSet(stmt.user_params, param_name, PrepareParamValue(value, json_stringify))]

\* dict[key] = value on a dict kept as its items in insertion order
PairsSet(pairs, key, value) ==
    IF HasKey(pairs, key)
    THEN [i \in DOMAIN pairs |-> IF pairs[i][1] = key THEN <<key, value>> ELSE pairs[i]]
    ELSE Append(pairs, <<key, value>>)

\* Update.set
SetOp(stmt, fields) == [stmt EXCEPT !.fields = fields[2]]

\* Update.add_set
AddSetOp(stmt, field, value) == [stmt EXCEPT !.fields = PairsSet(stmt.fields, field, value)]

\* the keys of a mapping that are not yet in columns, appended in order
RECURSIVE AddMissing(_, _)
AddMissing(columns, keys) ==
    IF keys = <<>> THEN columns
    ELSE AddMissing(IF \E i \in DOMAIN columns : columns[i] = Head(keys)
                    THEN columns ELSE Append(columns, Head(keys)),
                    Tail(keys))

\* the loop "row[column] = values[i]" of add_values: a column named twice keeps the
\* value given last
RECURSIVE RowOf(_, _, _)
RowOf(row, columns, items) ==
    IF columns = <<>> THEN row
    ELSE RowOf(PairsSet(row, Head(columns), Head(items)), Tail(columns), Tail(items))

\* Insert.add_values: the new fields, with the exception raised if any
AddValuesOp(stmt, values) ==
    IF IsCommand(values)
    THEN [stmt |-> stmt, error |-> "Adding SELECT is not supported. Please call `values` method instead"]
    ELSE IF IsCommand(stmt.values)
    THEN [stmt |-> stmt, error |-> "AttributeError: object has no attribute 'append'"]
    ELSE IF IsMapping(values)
    THEN [stmt |-> [stmt EXCEPT
                      !.columns = AddMissing(stmt.columns,
                                     [i \in DOMAIN values[2] |-> values[2][i][1]]),
                      !.values = PyList((IF stmt.values = None THEN <<>> ELSE stmt.values[2])
                                        \o <<values>>)],
          error |-> ""]
    ELSE IF IsSequence(values) \/ IsStr(values)
    THEN LET items == IF IsStr(values)
                      THEN [i \in DOMAIN values[2] |-> PyStr(<<values[2][i]>>)]
                      ELSE Items(values)
         IN  IF Len(stmt.columns) = 0
             THEN [stmt |-> stmt, error |-> "Please specify column names"]
             ELSE IF Len(items) < Len(stmt.columns)
             THEN [stmt |-> stmt, error |-> "IndexError"]
             ELSE [stmt |-> [stmt EXCEPT
                      !.values = PyList((IF stmt.values = None THEN <<>> ELSE stmt.values[2])
                                   \o <<PyMap(RowOf(<<>>, stmt.columns, items))>>)],
                   error |-> ""]
    ELSE [stmt |-> stmt, error |-> "Unsupported values type"]

\* the loop "for item in values: self.add_values(item)": it stops at the first exception
RECURSIVE AddValuesAll(_, _)
AddValuesAll(stmt, items) ==
    IF items = <<>> THEN [stmt |-> stmt, error |-> ""]
    ELSE LET r == AddValuesOp(stmt, Head(items))
         IN  IF r.error /= "" THEN r ELSE AddValuesAll(r.stmt, Tail(items))

\* Insert.values
ValuesOp(stmt, values) ==
    IF IsCommand(values) THEN [stmt |-> [stmt EXCEPT !.values = values], error |-> ""]
    ELSE IF IsMapping(values)
    THEN AddValuesOp([stmt EXCEPT !.values = PyList(<<>>)], values)
    ELSE IF IsIterable(values)
    THEN AddValuesAll([stmt EXCEPT !.values = PyList(<<>>)], Items(values))
    ELSE [stmt |-> stmt, error |-> "Unsupported values type"]

\* str.split(sep) for a separator of one character
RECURSIVE Split(_, _)
Split(chars, sep) ==
    IF \A i \in DOMAIN chars : chars[i] /= sep THEN <<chars>>
    ELSE <<SubSeq(chars, 1, PrefixLen(chars, Range(chars) \ {sep}))>>
         \o Split(Drop(chars, PrefixLen(chars, Range(chars) \ {sep}) + 1), sep)

\* str.strip()
Strip(chars) ==
    IF PrefixLen(chars, WhiteChars) = Len(chars) THEN <<>>
    ELSE SubSeq(chars, PrefixLen(chars, WhiteChars) + 1,
                CHOOSE n \in 1..Len(chars) :
                    /\ chars[n] \notin WhiteChars
                    /\ \A i \in (n + 1)..Len(chars) : chars[i] \in WhiteChars)

\* "if isinstance(fields, str): fields = fields.split(',')", then the items of fields
Fields(fields) ==
    IF IsStr(fields)
    THEN [i \in DOMAIN Split(fields[2], ",") |-> PyStr(Split(fields[2], ",")[i])]
    ELSE Items(fields)

\* FromBehaviour.add_from
AddFromOp(stmt, table, alias) ==
    [stmt EXCEPT !.from = Append(@, ParseColumnOrTable(table, alias))]

\* WithBehaviour.add_with
AddWithOp(stmt, subquery, alias_, recursive) ==
    [stmt EXCEPT !.with = Append(@, WithSubquery(Alias(subquery, alias_), recursive))]

\* WithBehaviour.with_
WithOp(stmt, subquery, alias, recursive) ==
    AddWithOp([stmt EXCEPT !.with = <<>>], subquery, alias, recursive)

\* "if isinstance(fields, str): split; elif not isinstance(fields, Iterable): [fields]"
FieldList(fields) ==
    IF IsStr(fields) \/ IsIterable(fields) THEN Fields(fields) ELSE <<fields>>

\* the loop of add_select and add_returning: a str is stripped and parsed, anything
\* else is taken as it is
AddFields(list, fields) ==
    IF IsAlias(fields) THEN Append(list, fields)
    ELSE list \o [i \in DOMAIN FieldList(fields) |->
                     IF IsStr(FieldList(fields)[i])
                     THEN ParseColumnOrTable(PyStr(Strip(FieldList(fields)[i][2])), None)
                     ELSE FieldList(fields)[i]]

\* Query.add_select
AddSelectOp(stmt, fields) == [stmt EXCEPT !.select = AddFields(@, fields)]

\* a variant of Query.select that does not empty the list first
SelectOpKeeping(stmt, fields) == AddSelectOp(stmt, fields)

\* Query.select
SelectOp(stmt, fields) == AddSelectOp([stmt EXCEPT !.select = <<>>], fields)

\* ReturningBehaviour.add_returning
AddReturningOp(stmt, fields) == [stmt EXCEPT !.returning = AddFields(@, fields)]

\* ReturningBehaviour.returning
ReturningOp(stmt, fields) == AddReturningOp([stmt EXCEPT !.returning = <<>>], fields)

\* "[field.strip() for field in fields]" of add_group and add_columns, for fields that
\* are a str or hold only strs
Stripped(fields) == [i \in DOMAIN Fields(fields) |-> PyStr(Strip(Fields(fields)[i][2]))]

\* Query.add_group
AddGroupOp(stmt, fields) == [stmt EXCEPT !.group = @ \o Stripped(fields)]

\* Query.group
GroupOp(stmt, fields) == AddGroupOp([stmt EXCEPT !.group = <<>>], fields)

\* Insert.add_columns
AddColumnsOp(stmt, fields) == [stmt EXCEPT !.columns = @ \o Stripped(fields)]

\* Insert.columns
ColumnsOp(stmt, fields) == AddColumnsOp([stmt EXCEPT !.columns = <<>>], fields)

\* [s for s in field.split(' ') if len(s) > 0]
Words(chars) == SelectSeq(Split(chars, " "), LAMBDA s : Len(s) > 0)

\* the str branch of add_order for a field without a comma
OrderOfStr(chars) ==
    IF Len(Words(chars)) = 2 /\ Upper(Words(chars)[2]) \in {ORDER_ASC, ORDER_DESC}
    THEN Order(PyStr(Words(chars)[1]), PyStr(Upper(Words(chars)[2])))
    ELSE Order(PyStr(chars), None)

\* Query.add_order: the entries it appends for field; what is none of the shapes it
\* knows adds nothing
RECURSIVE OrderEntries(_)
OrderEntries(field) ==
    IF IsStr(field)
    THEN IF Len(Split(field[2], ",")) > 1
         THEN Flatten([i \in DOMAIN Split(field[2], ",") |->
                          OrderEntries(PyStr(Split(field[2], ",")[i]))])
         ELSE <<OrderOfStr(field[2])>>
    ELSE IF IsOrder(field) THEN <<field>>
    ELSE IF IsMapping(field)
    THEN <<Order(Lookup(field[2], PyStr(<<"f", "i", "e", "l", "d">>)),
                 IF HasKey(field[2], PyStr(<<"s", "o", "r", "t">>))
                 THEN Lookup(field[2], PyStr(<<"s", "o", "r", "t">>)) ELSE None)>>
    ELSE IF IsSequence(field) /\ Len(Items(field)) = 2
            /\ Items(field)[2] \in {PyStr(ORDER_ASC), PyStr(ORDER_DESC)}
    THEN <<Order(Items(field)[1], Items(field)[2])>>
    ELSE IF IsIterable(field)
    THEN Flatten([i \in DOMAIN Items(field) |-> OrderEntries(Items(field)[i])])
    ELSE <<>>

\* Query.add_order
AddOrderOp(stmt, field) == [stmt EXCEPT !.order = @ \o OrderEntries(field)]

\* Query.order
OrderOp(stmt, fields) == AddOrderOp([stmt EXCEPT !.order = <<>>], fields)

\* Query.limit
LimitOp(stmt, limit) == [stmt EXCEPT !.limit = limit]

\* Query.join_table: the new fields, with the exception _parse_where_cond raised if any
JoinTableOp(stmt, join_type, table, on, alias, lateral) ==
    IF IsError(ParseWhereCond(on)) THEN [stmt |-> stmt, error |-> ParseWhereCond(on)[2]]
    ELSE [stmt |-> [stmt EXCEPT !.join =
                       Append(@, Join(join_type, ParseColumnOrTable(table, alias),
                                      ParseWhereCond(on), lateral))],
          error |-> ""]

\* Delete.__init__(conn, from_, alias, where)
NewDelete(from_, alias, where) ==
    LET s1 == NewStatement("Delete")
        s2 == IF from_ /= None THEN FromOp(s1, from_, alias) ELSE s1
    IN  IF where /= None THEN WhereOp(s2, where).stmt ELSE s2

\* Update.__init__(conn, table, alias, fields, where)
NewUpdate(table, alias, fields, where) ==
    LET s1 == NewStatement("Update")
        s2 == IF table /= None THEN TableOp(s1, table, alias) ELSE s1
        s3 == IF fields /= None THEN SetOp(s2, fields) ELSE s2
    IN  IF where /= None THEN WhereOp(s3, where).stmt ELSE s3

\* Insert.__init__(conn, table, alias) with neither columns nor values
NewInsert(table, alias) ==
    LET s1 == NewStatement("Insert")
    IN  IF table /= None THEN TableOp(s1, table, alias) ELSE s1

\* Query.__init__(conn)
NewQuery == NewStatement("Query")

----------------------------------------------------------------------------
(* conn.py: Connection *)

\* Connection.__init__: level 0, nothing asked of the driver yet
NewConnection == [_transaction_level |-> 0, asked |-> <<>>]

\* Connection._get_point_name
GetPointName(c) == "sp_" \o ToString(c._transaction_level)

\* what a call asks of the driver: cursor.execute(text)
CursorExecute(call, text) == [call |-> call, via |-> "cursor.execute", text |-> text]
\* what a call asks of the driver: psycopg2's connection.commit() or rollback()
Super(call) == [call |-> call, via |-> "super()." \o call, text |-> ""]

\* Connection.begin_transaction
BeginTransactionOp(c) ==
    [ _transaction_level |-> c._transaction_level + 1,
      asked |-> Append(c.asked,
                       IF c._transaction_level <= 0
                       THEN CursorExecute("begin_transaction", "BEGIN TRANSACTION")
                       ELSE CursorExecute("begin_transaction",
                                          "SAVEPOINT " \o GetPointName(c))) ]

\* the first statement of commit and of rollback: one level down, not below 0
LevelDown(c) ==
    IF c._transaction_level > 0
    THEN [c EXCEPT !._transaction_level = c._transaction_level - 1]
    ELSE c

\* a commit / rollback that names the savepoint before it lowers the level
EndTransactionNameFirst(c, call, statement) ==
    [ _transaction_level |-> LevelDown(c)._transaction_level,
      asked |-> Append(c.asked,
                       IF LevelDown(c)._transaction_level <= 0
                       THEN Super(call)
                       ELSE CursorExecute(call, statement \o GetPointName(c))) ]

\* Connection.commit with statement 'RELEASE SAVEPOINT ', Connection.rollback with
\* 'ROLLBACK TO SAVEPOINT ': the two methods differ in nothing else
EndTransaction(c, call, statement) ==
    [ _transaction_level |-> LevelDown(c)._transaction_level,
      asked |-> Append(c.asked,
                       IF LevelDown(c)._transaction_level <= 0
                       THEN Super(call)
                       ELSE CursorExecute(call, statement \o GetPointName(LevelDown(c)))) ]

\* Connection.commit
CommitOp(c) == EndTransaction(c, "commit", "RELEASE SAVEPOINT ")

\* Connection.rollback
RollbackOp(c) == EndTransaction(c, "rollback", "ROLLBACK TO SAVEPOINT ")

----------------------------------------------------------------------------
(* the sessions explored: the statements and the arguments of their calls *)

\* the statement the calls are made on, and the one it uses as a subquery
Stmts == {"A", "B"}

\* a condition argument, with the argument the twin session passes in its place
Arg(arg, other) == [arg |-> arg, other |-> other]
Same(arg) == Arg(arg, arg)

\* ['=', 'x', value]
LeafEq(value) == PyList(<<PyStr(<<"=">>), PyStr(<<"x">>), value>>)
\* ['in', 'r', B]
InSub == PyList(<<PyStr(<<"i","n">>), PyStr(<<"r">>), Cmd("B")>>)
\* {'r': B}
EqSub == PyMap(<< <<PyStr(<<"r">>), Cmd("B")>> >>)
\* {'n': value}
NameIs(value) == PyMap(<< <<PyStr(<<"n">>), value>> >>)
\* ['like', 'a', []]
LikeNothing == PyList(<<PyStr(<<"l","i","k","e">>), PyStr(<<"a">>), PyList(<<>>)>>)
\* ['and', ['and', 'b', 'c'], 'd']
AndOfAnd ==
    PyList(<<PyStr(<<"a","n","d">>),
             PyList(<<PyStr(<<"a","n","d">>), PyStr(<<"b">>), PyStr(<<"c">>)>>),
             PyStr(<<"d">>)>>)
\* ['or', 'e', 'f']
OrOfTwo == PyList(<<PyStr(<<"o","r">>), PyStr(<<"e">>), PyStr(<<"f">>)>>)

Jane == PyStr(<<"J","a","n","e">>)
Lee == PyStr(<<"L","e","e">>)

\* the conditions given to the statement A, and to its subquery B, in Spec
BindConds == {Arg(LeafEq(PyNum(1)), LeafEq(Lee)), Same(InSub), Same(EqSub)}
SubConds == {Arg(NameIs(Jane), NameIs(PyNum(7)))}
\* the conditions given to the Update or Delete of SpecGuard
GuardConds == {Same(PyBool(TRUE)), Same(LikeNothing), Same(PyStr(<<"a">>))}
\* the conditions given to the SELECT of SpecFold
FoldConds == {Same(PyStr(<<"a">>)), Same(LeafEq(PyNum(1))), Same(LikeNothing),
              Same(AndOfAnd), Same(OrOfTwo)}

\* [op, 'k', value], ['k', value] and {'k': value}
Op3(op, value) == PyList(<<PyStr(op), PyStr(<<"k">>), value>>)
Pair2(value) == PyList(<<PyStr(<<"k">>), value>>)
KeyIs(value) == PyMap(<< <<PyStr(<<"k">>), value>> >>)

\* [], () and [1, 2]
EmptyList == PyList(<<>>)
EmptyTuple == PyTuple(<<>>)
OneTwo == PyList(<<PyNum(1), PyNum(2)>>)
Collections == {EmptyList, EmptyTuple, OneTwo}

\* the ways to write a membership test of 'k' in a collection, and its negation
InForms(value) == {Op3(WHERE_OP_IN, value), Op3(WHERE_OP_EQUAL, value),
                   Pair2(value), KeyIs(value)}
NotInForms(value) == {Op3(WHERE_OP_NOT_IN, value), Op3(WHERE_OP_NE, value),
                      Op3(WHERE_OP_NE2, value)}
MemberConds == UNION {InForms(v) \cup NotInForms(v) : v \in Collections}

\* =, <> and != against True, False and None
CollapseOps == {WHERE_OP_EQUAL, WHERE_OP_NE, WHERE_OP_NE2}
CollapseConds ==
    {Op3(op, v) : op \in CollapseOps, v \in {PyBool(TRUE), PyBool(FALSE), None}}

\* 'word', 'wo%r$d' and the LIKE conditions over them
Word == PyStr(<<"w","o","r","d">>)
Wild == PyStr(<<"w","o","%","r","$","d">>)
LikeOps == {WHERE_OP_LIKE, WHERE_OP_NOT_ILIKE, WHERE_OP_OR_LIKE, WHERE_OP_OR_NOT_ILIKE}
LikeValues == {Word, Wild, PyList(<<Word, Wild>>)}
LikeConds == {Op3(op, v) : op \in LikeOps, v \in LikeValues}

\* ['and'], ['or', ['and', ['like', 'a', []]], ['and']] and
\* ['and', ['like', 'a', []], 'a', ['or']]
EmptyAnd == PyList(<<PyStr(WHERE_OP_AND)>>)
NestedNothing ==
    PyList(<<PyStr(WHERE_OP_OR), PyList(<<PyStr(WHERE_OP_AND), LikeNothing>>), EmptyAnd>>)
NothingAround ==
    PyList(<<PyStr(WHERE_OP_AND), LikeNothing, PyStr(<<"a">>),
             PyList(<<PyStr(WHERE_OP_OR)>>)>>)
AbsentConds == {LikeNothing, EmptyAnd, NestedNothing}

\* where_cond('=', 'k', 1), where_cond_raw('a'), where_cond_raw(True) and
\* where_cond_arr(op='or', conds=[where_cond('=', 'k', 1), where_cond_raw('a')])
TypedLeaf == WhereCond(WHERE_OP_EQUAL, PyStr(<<"k">>), PyNum(1))
TypedRaw == WhereCondRaw(PyStr(<<"a">>))
TypedRawTrue == WhereCondRaw(PyBool(TRUE))
TypedGroup == WhereCondArr(WHERE_OP_OR, <<TypedLeaf, TypedRaw>>)
\* where_cond_arr(op='or', conds=[('i', 1), ('j', 2)])
PairsGroup ==
    WhereCondArr(WHERE_OP_OR, <<PyTuple(<<PyStr(<<"i">>), PyNum(1)>>),
                                PyTuple(<<PyStr(<<"j">>), PyNum(2)>>)>>)
TypedConds == {TypedLeaf, TypedRaw, TypedRawTrue, TypedGroup, PairsGroup}

\* ['between', 'k', 1, 2], ['between', 'k', (1, 2)] and the inputs of no recognized
\* shape: ['between', 'k', 1], ['between', 'k'], ['=', 'k'], ['zz', 'k', 1],
\* [1, 'k'], ['like', 'k', 5], [] and where_cond('zz', 'k', 1)
BetweenFour == PyList(<<PyStr(WHERE_OP_BETWEEN), PyStr(<<"k">>), PyNum(1), PyNum(2)>>)
BetweenPair == Op3(WHERE_OP_BETWEEN, PyTuple(<<PyNum(1), PyNum(2)>>))
BetweenScalar == Op3(WHERE_OP_BETWEEN, PyNum(1))
BetweenNoBound == PyList(<<PyStr(WHERE_OP_BETWEEN), PyStr(<<"k">>)>>)
EqNoValue == PyList(<<PyStr(WHERE_OP_EQUAL), PyStr(<<"k">>)>>)
UnknownOp == Op3(<<"z","z">>, PyNum(1))
NumFirst == PyList(<<PyNum(1), PyStr(<<"k">>)>>)
LikeNumber == Op3(WHERE_OP_LIKE, PyNum(5))
UnknownOpLeaf == WhereCond(<<"z","z">>, PyStr(<<"k">>), PyNum(1))
Malformed == {BetweenScalar, BetweenNoBound, EqNoValue, UnknownOp, NumFirst, LikeNumber,
              EmptyList, UnknownOpLeaf}

\* {'id': 1} and {'a': 1, 'b': None, 'c': [1, 2], 'd': 'word', 'r': B}
IdIsOne == PyMap(<< <<PyStr(<<"i","d">>), PyNum(1)>> >>)
FivePairs ==
    PyMap(<< <<PyStr(<<"a">>), PyNum(1)>>, <<PyStr(<<"b">>), None>>,
             <<PyStr(<<"c">>), OneTwo>>, <<PyStr(<<"d">>), Word>>,
             <<PyStr(<<"r">>), Cmd("B")>> >>)
MappingConds == {IdIsOne, FivePairs, PyMap(<<>>)}

\* the conditions given to the SELECT of SpecCond with where, and those it is given
\* with and_where / or_where
CondArgs ==
    MemberConds \cup CollapseConds \cup LikeConds \cup AbsentConds \cup {NothingAround}
    \cup TypedConds \cup {BetweenFour, BetweenPair} \cup Malformed \cup MappingConds
    \cup {PyStr(<<"a">>), PyBool(TRUE)}
MoreArgs == {LikeNothing, EmptyAnd, PyStr(<<"a">>), IdIsOne}

\* the strings given to quote_string: names, digits, dots, blanks and parentheses
QuoteAlphabet == {"a", "_", "0", "1", ".", " ", "(", ")"}
Texts == UNION {[1..n -> QuoteAlphabet] : n \in 0..MaxTextLen}

\* the statements of SpecNested: A may use B and C as subqueries, B may use C
Nested == {"A", "B", "C"}
Uses(s) == CASE s = "A" -> {"B", "C"} [] s = "B" -> {"C"} [] OTHER -> {}
\* ['in', 'r', the statement id]
InCmd(id) == PyList(<<PyStr(<<"i","n">>), PyStr(<<"r">>), Cmd(id)>>)
\* the table each of them reads
TableOf(s) == CASE s = "A" -> PyStr(<<"t">>) [] s = "B" -> PyStr(<<"u">>) [] OTHER -> PyStr(<<"v">>)
\* the value each of them compares x with, and the value it seeds the name p0 with
BoundBy(s) == CASE s = "A" -> Jane [] s = "B" -> PyNum(1) [] OTHER -> PyNum(7)
SeededBy(s) == CASE s = "A" -> Lee [] s = "B" -> PyNum(2) [] OTHER -> PyNum(8)

\* the clauses of the SELECT of SpecSelect
CteText == PyStr(<<"S", "E", "L", "E", "C", "T", " ", "1">>)
CteAlias == PyStr(<<"c">>)
JoinTypes == {JOIN_INNER, JOIN_LEFT, JOIN_RIGHT, JOIN_FULL}
\* 'a=b'
OnAB == PyStr(<<"a", "=", "b">>)
\* limit(5), limit(0) and limit(None)
LimitArgs == {PyNum(5), PyNum(0), None}

\* the arguments of Insert.columns / add_columns: 'i, j', ['k'] and []
ColumnArgs == {PyStr(<<"i", ",", " ", "j">>), PyList(<<PyStr(<<"k">>)>>), PyList(<<>>)}
\* the rows given to Insert.add_values: {'i': 1}, {'k': 2, 'i': None}, (7, 8) and [9]
ValueArgs ==
    { PyMap(<< <<PyStr(<<"i">>), PyNum(1)>> >>),
      PyMap(<< <<PyStr(<<"k">>), PyNum(2)>>, <<PyStr(<<"i">>), None>> >>),
      PyTuple(<<PyNum(7), PyNum(8)>>),
      PyList(<<PyNum(9)>>) }
\* [(7, 8), {'j': 5}], one of the lists of rows given to Insert.values
TwoRows ==
    PyList(<<PyTuple(<<PyNum(7), PyNum(8)>>), PyMap(<< <<PyStr(<<"j">>), PyNum(5)>> >>)>>)

\* the user parameters seeded with add_param: the first generated name of each statement
SeedName(s) == IF s = "A" THEN "p0" ELSE "p0_0"

\* the arguments of Update.set / add_set and of Insert.values / add_values
SetArgs == {Arg(PyMap(<< <<PyStr(<<"n">>), Lee>> >>), PyMap(<< <<PyStr(<<"n">>), PyNum(5)>> >>))}
AddSetArgs == {Arg(PyNum(3), PyNum(4))}
RowArgs == {Arg(PyMap(<< <<PyStr(<<"i">>), PyNum(1)>> >>),
                PyMap(<< <<PyStr(<<"i">>), Jane>> >>))}

\* what one call left in wlog
Call(m, arg) == [m |-> m, arg |-> arg]

\* the number of calls whose effect the objects still hold
Rows(stmt) == IF Tag(stmt.values) = "list" THEN Len(stmt.values[2]) ELSE 0
Size ==
    Len(wlog["A"]) + Len(wlog["B"])
    + Cardinality(DOMAIN heap["A"].user_params) + Cardinality(DOMAIN heap["B"].user_params)
    + Len(heap["A"].fields) + Rows(heap["A"])

\* the subquery B: Query(conn).select('id').from_('u')
SubqueryB == [FromOp(NewQuery, PyStr(<<"u">>), None) EXCEPT
                 !.select = <<ParseColumnOrTable(PyStr(<<"i","d">>), None)>>]

----------------------------------------------------------------------------
(* the calls *)

\* what build_query gives its caller: the exception, or the BuiltCommand (query, params)
Built(res) ==
    IF res.error /= ""
    THEN [error |-> res.error, query |-> <<>>, text |-> "", params |-> EmptyDict,
          prefix |-> res.prefix, binds |-> <<>>, subs |-> <<>>]
    ELSE [error |-> "", query |-> res.query, text |-> AsString(res.query),
          params |-> res.params, prefix |-> res.prefix, binds |-> res.binds,
          subs |-> res.subs]

\* a fluent call on s that left it as r.stmt (and its twin as rt.stmt) or raised r.error
Fluent(s, r, rt) ==
    /\ heap' = [heap EXCEPT ![s] = r.stmt]
    /\ twin' = [twin EXCEPT ![s] = rt.stmt]
    /\ raised' = r.error
    /\ out' = <<>>
    /\ prev' = <<>>
    /\ driver' = <<>>
    /\ UNCHANGED <<quoted, held, conn>>

Returned(stmt) == [stmt |-> stmt, error |-> ""]

\* s.where(c)
Where(s, c) ==
    /\ heap[s].kind /= "Insert"
    /\ Fluent(s, WhereOp(heap[s], c.arg), WhereOp(twin[s], c.other))
    /\ wlog' = [wlog EXCEPT ![s] = IF WhereOp(heap[s], c.arg).error = ""
                                   THEN <<Call("where", c.arg)>> ELSE @]

\* s.and_where(c)
AndWhere(s, c) ==
    /\ heap[s].kind /= "Insert"
    /\ Fluent(s, WhereArrOp(heap[s], c.arg, WHERE_OP_AND),
                 WhereArrOp(twin[s], c.other, WHERE_OP_AND))
    /\ wlog' = [wlog EXCEPT ![s] = IF WhereArrOp(heap[s], c.arg, WHERE_OP_AND).error = ""
                                   THEN Append(@, Call("and_where", c.arg)) ELSE @]

\* s.or_where(c)
OrWhere(s, c) ==
    /\ heap[s].kind /= "Insert"
    /\ Fluent(s, WhereArrOp(heap[s], c.arg, WHERE_OP_OR),
                 WhereArrOp(twin[s], c.other, WHERE_OP_OR))
    /\ wlog' = [wlog EXCEPT ![s] = IF WhereArrOp(heap[s], c.arg, WHERE_OP_OR).error = ""
                                   THEN Append(@, Call("or_where", c.arg)) ELSE @]

\* a call on s, with the caller's Group or with the condition cond, that left the
\* caller's Group as group and at the places at[s] in s, and s.where as where: every
\* statement that refers to the Group sees its present value
Sharing(s, m, where, group, places) ==
    /\ held' = [group |-> group, at |-> [held.at EXCEPT ![s] = places]]
    /\ heap' = [t \in DOMAIN heap |->
                  [heap[t] EXCEPT !.where =
                      Refreshed(IF t = s THEN where ELSE @, held'.at[t], group, <<>>)]]
    /\ twin' = heap'
    /\ wlog' = [wlog EXCEPT ![s] = Append(@, m)]
    /\ raised' = ""
    /\ out' = <<>>
    /\ prev' = <<>>
    /\ driver' = <<>>
    /\ UNCHANGED <<quoted, conn>>

\* s.where(cond), where cond is the caller's Group when given
WhereOf(s, cond, given) ==
    Sharing(s, Call("where", IF given THEN held.group ELSE cond), IF given THEN held.group ELSE ParseWhereCond(cond),
            held.group, IF given THEN {<<>>} ELSE {})

\* s.and_where(cond) and s.or_where(cond), where cond is the caller's Group when given
WhereArrOf(s, cond, cond_op, given) ==
    Sharing(s, Call(IF cond_op = WHERE_OP_AND THEN "and_where" ELSE "or_where",
                    IF given THEN held.group ELSE cond),
            WhereArr(heap[s].where, IF given THEN held.group ELSE ParseWhereCond(cond),
                     cond_op),
            IF InPlace(heap[s].where, cond_op) /\ <<>> \in held.at[s]
            THEN WhereArr(heap[s].where,
                          IF given THEN held.group ELSE ParseWhereCond(cond), cond_op)
            ELSE held.group,
            PlacesAfterWhereArr(held.at[s], heap[s].where,
                                IF given THEN held.group ELSE ParseWhereCond(cond),
                                cond_op, given))

\* s.add_param(name, value)
AddParam(s, name, value) ==
    /\ Fluent(s, Returned(AddParamOp(heap[s], name, value, FALSE)),
                 Returned(AddParamOp(twin[s], name, value, FALSE)))
    /\ UNCHANGED wlog

\* s.set(fields)
Set(s, f) ==
    /\ heap[s].kind = "Update"
    /\ Fluent(s, Returned(SetOp(heap[s], f.arg)), Returned(SetOp(twin[s], f.other)))
    /\ UNCHANGED wlog

\* s.add_set(field, value)
AddSet(s, field, v) ==
    /\ heap[s].kind = "Update"
    /\ Fluent(s, Returned(AddSetOp(heap[s], field, v.arg)),
                 Returned(AddSetOp(twin[s], field, v.other)))
    /\ UNCHANGED wlog

\* s.values(row)
Values(s, row) ==
    /\ heap[s].kind = "Insert"
    /\ Fluent(s, ValuesOp(heap[s], row.arg), ValuesOp(twin[s], row.other))
    /\ UNCHANGED wlog

\* s.add_values(row)
AddValues(s, row) ==
    /\ heap[s].kind = "Insert"
    /\ Fluent(s, AddValuesOp(heap[s], row.arg), AddValuesOp(twin[s], row.other))
    /\ UNCHANGED wlog

\* a fluent call on s that cannot raise and leaves it as Op(statement)
Setting(s, Op(_)) ==
    /\ Fluent(s, Returned(Op(heap[s])), Returned(Op(twin[s])))
    /\ UNCHANGED wlog

\* s.with_(subquery, alias) and s.add_with(subquery, alias)
With(s, subquery, alias) ==
    /\ heap[s].kind \in {"Query", "Insert"}
    /\ Setting(s, LAMBDA stmt : WithOp(stmt, subquery, alias, FALSE))
AddWith(s, subquery, alias) ==
    /\ heap[s].kind \in {"Query", "Insert"}
    /\ Setting(s, LAMBDA stmt : AddWithOp(stmt, subquery, alias, FALSE))

\* s.select(fields) and s.add_select(fields)
Select(s, fields) ==
    /\ heap[s].kind = "Query"
    /\ Setting(s, LAMBDA stmt : SelectOp(stmt, fields))
AddSelect(s, fields) ==
    /\ heap[s].kind = "Query"
    /\ Setting(s, LAMBDA stmt : AddSelectOp(stmt, fields))

\* s.from_(table) and s.add_from(table)
From(s, table) ==
    /\ heap[s].kind = "Query"
    /\ Setting(s, LAMBDA stmt : FromOp(stmt, table, None))
AddFrom(s, table) ==
    /\ heap[s].kind = "Query"
    /\ Setting(s, LAMBDA stmt : AddFromOp(stmt, table, None))

\* s.group(fields) and s.add_group(fields)
Group(s, fields) ==
    /\ heap[s].kind = "Query"
    /\ Setting(s, LAMBDA stmt : GroupOp(stmt, fields))
AddGroup(s, fields) ==
    /\ heap[s].kind = "Query"
    /\ Setting(s, LAMBDA stmt : AddGroupOp(stmt, fields))

\* s.order(fields) and s.add_order(field)
OrderBy(s, fields) ==
    /\ heap[s].kind = "Query"
    /\ Setting(s, LAMBDA stmt : OrderOp(stmt, fields))
AddOrder(s, field) ==
    /\ heap[s].kind = "Query"
    /\ Setting(s, LAMBDA stmt : AddOrderOp(stmt, field))

\* s.returning(fields) and s.add_returning(fields)
Returning(s, fields) ==
    /\ heap[s].kind = "Insert"
    /\ Setting(s, LAMBDA stmt : ReturningOp(stmt, fields))
AddReturning(s, fields) ==
    /\ heap[s].kind = "Insert"
    /\ Setting(s, LAMBDA stmt : AddReturningOp(stmt, fields))

\* s.limit(limit)
Limit(s, limit) ==
    /\ heap[s].kind = "Query"
    /\ Setting(s, LAMBDA stmt : LimitOp(stmt, limit))

\* s.join_table(join_type, table, on): join_, join_inner, join_left, join_right and
\* join_full are this call with their join type; on is None when it is left out
JoinTable(s, join_type, table, on) ==
    /\ heap[s].kind = "Query"
    /\ Fluent(s, JoinTableOp(heap[s], join_type, table, on, None, FALSE),
                 JoinTableOp(twin[s], join_type, table, on, None, FALSE))
    /\ UNCHANGED wlog

\* s.columns(fields)
Columns(s, fields) ==
    /\ heap[s].kind = "Insert"
    /\ Fluent(s, Returned(ColumnsOp(heap[s], fields)), Returned(ColumnsOp(twin[s], fields)))
    /\ UNCHANGED wlog

\* s.add_columns(fields)
AddColumns(s, fields) ==
    /\ heap[s].kind = "Insert"
    /\ Fluent(s, Returned(AddColumnsOp(heap[s], fields)),
                 Returned(AddColumnsOp(twin[s], fields)))
    /\ UNCHANGED wlog

\* the pass over the statements and the same pass over their twins
Builds(s) ==
    [k \in {"heap", "twin"} |-> BuildQuery(IF k = "heap" THEN heap ELSE twin, s, "")]

\* the state a finished build_query leaves; execute then passes (query, params) to
\* cursor.execute
Completed(s, b, executed) ==
    /\ heap' = b["heap"].store
    /\ twin' = b["twin"].store
    /\ raised' = b["heap"].error
    /\ out' = <<[s |-> s, built |-> Built(b["heap"]), other |-> Built(b["twin"])]>>
    /\ prev' = out
    /\ driver' = IF executed /\ b["heap"].error = ""
                 THEN <<[query |-> AsString(b["heap"].query),
                         params |-> b["heap"].params]>>
                 ELSE <<>>
    /\ UNCHANGED <<wlog, quoted, held, conn>>

\* s.quote_string(val, ctx) with the context of a build of s that bound nothing yet
QuoteStringCall(s) ==
    /\ quoted /= <<>>
    /\ quoted[1].q = None
    /\ quoted' = <<[val |-> quoted[1].val,
                    q |-> QuoteString(quoted[1].val,
                                      BuildContext(heap[s].user_params, "", heap)).q]>>
    /\ UNCHANGED <<heap, twin, out, prev, driver, raised, wlog, held, conn>>

\* a call on the Connection that left it as c
OnConnection(c) ==
    /\ conn' = c
    /\ UNCHANGED <<heap, twin, out, prev, driver, raised, wlog, quoted, held>>

\* conn.begin_transaction()
BeginTransaction == OnConnection(BeginTransactionOp(conn))

\* conn.commit()
Commit == OnConnection(CommitOp(conn))

\* conn.rollback()
Rollback == OnConnection(RollbackOp(conn))

\* s.build_query()
Build(s) ==
    /\ s \in DOMAIN heap
    /\ Completed(s, Builds(s), FALSE)

\* s.execute(): build_query().execute()
Execute(s) ==
    /\ s \in DOMAIN heap
    /\ Completed(s, Builds(s), TRUE)

----------------------------------------------------------------------------
(* Spec: a statement A of any kind and the SELECT B it uses as a subquery *)

TableT == PyStr(<<"t">>)

\* nothing quoted yet, no condition object held by the caller, a new Connection
Idle ==
    /\ quoted = <<>>
    /\ held = None
    /\ conn = NewConnection

\* the statement a with its subquery B, before any call
Objects(a) ==
    /\ heap = [s \in Stmts |-> IF s = "A" THEN a ELSE SubqueryB]
    /\ twin = heap
    /\ out = <<>>
    /\ prev = <<>>
    /\ driver = <<>>
    /\ raised = ""

Fresh(a) == Objects(a) /\ Idle

Init ==
    /\ \E a \in {FromOp(NewQuery, TableT, None),
                 NewUpdate(TableT, None, None, None),
                 NewInsert(TableT, None)} : Fresh(a)
    /\ wlog = [s \in Stmts |-> <<>>]

Next ==
    \/ \E c \in BindConds : Size < MaxCalls /\ Where("A", c)
    \/ \E c \in SubConds : Size < MaxCalls /\ Where("B", c)
    \/ \E c \in BindConds : Size < MaxCalls /\ AndWhere("A", c)
    \/ \E c \in BindConds : Size < MaxCalls /\ OrWhere("A", c)
    \/ \E s \in Stmts : Size < MaxCalls /\ AddParam(s, SeedName(s), Jane)
    \/ \E f \in SetArgs : Size < MaxCalls /\ Set("A", f)
    \/ \E v \in AddSetArgs : Size < MaxCalls /\ AddSet("A", PyStr(<<"g">>), v)
    \/ \E row \in RowArgs : Size < MaxCalls /\ Values("A", row)
    \/ \E row \in RowArgs : Size < MaxCalls /\ AddValues("A", row)
    \/ Build("A")

Spec == Init /\ [][Next]_vars

----------------------------------------------------------------------------
(* SpecGuard: an Update or a Delete, its conditions, build_query and execute *)

InitGuard ==
    \E w \in {None, PyBool(TRUE)} :
        /\ \E a \in {NewDelete(TableT, None, w),
                     NewUpdate(TableT, None, PyMap(<< <<PyStr(<<"n">>), Lee>> >>), w)} :
              Fresh(a)
        /\ wlog = [s \in Stmts |-> IF s = "A" /\ w /= None THEN <<Call("where", w)>>
                                   ELSE <<>>]

NextGuard ==
    \/ \E c \in GuardConds : Len(wlog["A"]) < MaxGuardCalls /\ Where("A", c)
    \/ \E c \in GuardConds : Len(wlog["A"]) < MaxGuardCalls /\ AndWhere("A", c)
    \/ \E c \in GuardConds : Len(wlog["A"]) < MaxGuardCalls /\ OrWhere("A", c)
    \/ Build("A")
    \/ Execute("A")

SpecGuard == InitGuard /\ [][NextGuard]_vars

----------------------------------------------------------------------------
(* SpecFold: the where / and_where / or_where fold on one SELECT *)

InitFold ==
    /\ Fresh(FromOp(NewQuery, TableT, None))
    /\ wlog = [s \in Stmts |-> <<>>]

NextFold ==
    \/ \E c \in FoldConds : Len(wlog["A"]) < MaxFoldCalls /\ Where("A", c)
    \/ \E c \in FoldConds : Len(wlog["A"]) < MaxFoldCalls /\ AndWhere("A", c)
    \/ \E c \in FoldConds : Len(wlog["A"]) < MaxFoldCalls /\ OrWhere("A", c)

SpecFold == InitFold /\ [][NextFold]_vars

----------------------------------------------------------------------------
(* SpecCond: one SELECT, a where() with a condition input of any shape as the first *)
(* call, the and_where / or_where calls after it, and the build                    *)

InitCond ==
    /\ Fresh(FromOp(NewQuery, TableT, None))
    /\ wlog = [s \in Stmts |-> <<>>]

NextCond ==
    \/ \E c \in CondArgs : wlog["A"] = <<>> /\ out = <<>> /\ Where("A", Same(c))
    \/ \E c \in MoreArgs : Len(wlog["A"]) < MaxCondCalls /\ AndWhere("A", Same(c))
    \/ \E c \in MoreArgs : Len(wlog["A"]) < MaxCondCalls /\ OrWhere("A", Same(c))
    \/ Build("A")

SpecCond == InitCond /\ [][NextCond]_vars

----------------------------------------------------------------------------
(* SpecQuote: quote_string applied to a string *)

InitQuote ==
    /\ Objects(FromOp(NewQuery, TableT, None))
    /\ wlog = [s \in Stmts |-> <<>>]
    /\ \E text \in Texts : quoted = <<[val |-> PyStr(text), q |-> None]>>
    /\ held = None
    /\ conn = NewConnection

NextQuote == QuoteStringCall("A")

SpecQuote == InitQuote /\ [][NextQuote]_vars

----------------------------------------------------------------------------
(* SpecConn: begin_transaction, commit and rollback on one Connection *)

InitConn ==
    /\ Fresh(FromOp(NewQuery, TableT, None))
    /\ wlog = [s \in Stmts |-> <<>>]

NextConn ==
    \/ Len(conn.asked) < MaxTxCalls /\ BeginTransaction
    \/ Len(conn.asked) < MaxTxCalls /\ Commit
    \/ Len(conn.asked) < MaxTxCalls /\ Rollback

SpecConn == InitConn /\ [][NextConn]_vars

----------------------------------------------------------------------------
(* SpecInsert: columns, add_columns, values and add_values on one Insert, and the *)
(* build; the session ends with the first exception                              *)

InitInsert ==
    /\ Fresh(NewInsert(TableT, None))
    /\ wlog = [s \in Stmts |-> <<>>]

NextInsert ==
    \/ \E f \in ColumnArgs : raised = "" /\ Columns("A", f)
    \/ \E f \in ColumnArgs :
          raised = "" /\ Len(heap["A"].columns) < MaxColumns /\ AddColumns("A", f)
    \/ \E v \in ValueArgs \cup {TwoRows} : raised = "" /\ Values("A", Same(v))
    \/ \E v \in ValueArgs :
          raised = "" /\ Rows(heap["A"]) < MaxRows /\ AddValues("A", Same(v))
    \/ raised = "" /\ Build("A")

SpecInsert == InitInsert /\ [][NextInsert]_vars

----------------------------------------------------------------------------
(* SpecSelect: the clauses of one SELECT, set in any order, reset, and built *)

InitSelect ==
    /\ Fresh(NewQuery)
    /\ wlog = [s \in Stmts |-> <<>>]

NextSelect ==
    \/ With("A", CteText, CteAlias)
    \/ \E f \in {PyStr(<<"i", "d">>), EmptyList} : Select("A", f)
    \/ From("A", TableT)
    \/ \E jt \in JoinTypes : \E on \in {None, OnAB} :
          Len(heap["A"].join) < MaxJoins /\ JoinTable("A", jt, PyStr(<<"j">>), on)
    \/ Where("A", Same(PyStr(<<"w">>)))
    \/ \E f \in {PyStr(<<"g">>), EmptyList} : Group("A", f)
    \/ \E f \in {PyStr(<<"o">>), EmptyList} : OrderBy("A", f)
    \/ \E n \in LimitArgs : Limit("A", n)
    \/ Build("A")

SpecSelect == InitSelect /\ [][NextSelect]_vars

----------------------------------------------------------------------------
(* SpecNested: a SELECT, a subquery and a subquery of the subquery *)

Seeds == Cardinality({s \in Nested : DOMAIN heap[s].user_params /= {}})

InitNested ==
    /\ heap = [s \in Nested |->
                  SelectOp(FromOp(NewQuery, TableOf(s), None), PyStr(<<"i","d">>))]
    /\ twin = heap
    /\ out = <<>>
    /\ prev = <<>>
    /\ driver = <<>>
    /\ raised = ""
    /\ wlog = [s \in Nested |-> <<>>]
    /\ Idle

NextNested ==
    \/ \E s \in Nested : Where(s, Same(LeafEq(BoundBy(s))))
    \/ \E s \in Nested : \E sub \in Uses(s) : Where(s, Same(InCmd(sub)))
    \/ \E s \in Nested :
          Len(wlog[s]) \in 1..(MaxNestedCalls - 1) /\ AndWhere(s, Same(LeafEq(BoundBy(s))))
    \/ \E s \in Nested : \E sub \in Uses(s) :
          Len(wlog[s]) \in 1..(MaxNestedCalls - 1) /\ AndWhere(s, Same(InCmd(sub)))
    \/ \E s \in Nested : Seeds < MaxSeeds /\ AddParam(s, "p0", SeededBy(s))
    \/ Build("A")

SpecNested == InitNested /\ [][NextNested]_vars

----------------------------------------------------------------------------
(* SpecShared: two SELECTs given the same Group object by their caller *)

\* where_cond_arr(op='and', conds=[where_cond('=', 'x', 1)])
CallerGroup == WhereCondArr(WHERE_OP_AND, <<WhereCond(WHERE_OP_EQUAL, PyStr(<<"x">>), PyNum(1))>>)

SharedCalls == Len(wlog["A"]) + Len(wlog["B"])

InitShared ==
    /\ Objects(FromOp(NewQuery, TableT, None))
    /\ wlog = [s \in Stmts |-> <<>>]
    /\ held = [group |-> CallerGroup, at |-> [s \in Stmts |-> {}]]
    /\ quoted = <<>>
    /\ conn = NewConnection

NextShared ==
    \/ \E s \in Stmts : SharedCalls < MaxSharedCalls /\ WhereOf(s, None, TRUE)
    \/ \E s \in Stmts : SharedCalls < MaxSharedCalls /\ WhereOf(s, PyStr(<<"w">>), FALSE)
    \/ \E s \in Stmts : \E cond_op \in {WHERE_OP_AND, WHERE_OP_OR} :
          SharedCalls < MaxSharedCalls /\ WhereArrOf(s, None, cond_op, TRUE)
    \/ \E s \in Stmts : \E cond_op \in {WHERE_OP_AND, WHERE_OP_OR} :
          SharedCalls < MaxSharedCalls /\ WhereArrOf(s, PyStr(<<"w">>), cond_op, FALSE)
    \/ \E s \in Stmts : Build(s)

SpecShared == InitShared /\ [][NextShared]_vars

----------------------------------------------------------------------------
(* SpecLists: the setter and the adder of each clause, one clause at a time *)

\* the arguments of select / add_select and returning / add_returning: 'a, b', ['c'],
\* an Alias and []
FieldArgs ==
    { PyStr(<<"a", ",", " ", "b">>), PyList(<<PyStr(<<"c">>)>>),
      Alias(PyStr(<<"d">>), PyStr(<<"x">>)), EmptyList }
\* the arguments of group / add_group: 'a, b', ['c'] and []
GroupArgs == { PyStr(<<"a", ",", " ", "b">>), PyList(<<PyStr(<<"c">>)>>), EmptyList }
\* 'a, b desc', ['c'], ('d', 'DESC'), {'field': 'e'} and []
OrderArgs ==
    { PyStr(<<"a", ",", " ", "b", " ", "d", "e", "s", "c">>), PyList(<<PyStr(<<"c">>)>>),
      PyTuple(<<PyStr(<<"d">>), PyStr(ORDER_DESC)>>),
      PyMap(<< <<PyStr(<<"f", "i", "e", "l", "d">>), PyStr(<<"e">>)>> >>), EmptyList }
\* 't' and 'u v'
TableArgs == { TableT, PyStr(<<"u", " ", "v">>) }
\* the aliases of with_('SELECT 1', alias)
WithArgs == { PyStr(<<"c">>), PyStr(<<"d">>) }
\* 'w' and {'n': 1}
TreeArgs == { PyStr(<<"w">>), NameIs(PyNum(1)) }

\* the clauses of the statement other than clause hold nothing
Alone(s, clause) ==
    /\ \A other \in {"with", "select", "from", "group", "order", "returning", "columns"}
                    \ {clause} : heap[s][other] = <<>>
    /\ clause /= "where" => heap[s].where = None

\* there is room for one more adder call on the clause
Room(s, clause) == Alone(s, clause) /\ Len(heap[s][clause]) < MaxEntries

InitLists ==
    /\ \E a \in {NewQuery, NewInsert(None, None)} : Fresh(a)
    /\ wlog = [s \in Stmts |-> <<>>]

NextLists ==
    \/ \E a \in WithArgs : Alone("A", "with") /\ With("A", CteText, a)
    \/ \E a \in WithArgs : Room("A", "with") /\ AddWith("A", CteText, a)
    \/ \E f \in FieldArgs : Alone("A", "select") /\ Select("A", f)
    \/ \E f \in FieldArgs : Room("A", "select") /\ AddSelect("A", f)
    \/ \E f \in TableArgs : Alone("A", "from") /\ From("A", f)
    \/ \E f \in TableArgs : Room("A", "from") /\ AddFrom("A", f)
    \/ \E f \in GroupArgs : Alone("A", "group") /\ Group("A", f)
    \/ \E f \in GroupArgs : Room("A", "group") /\ AddGroup("A", f)
    \/ \E f \in OrderArgs : Alone("A", "order") /\ OrderBy("A", f)
    \/ \E f \in OrderArgs : Room("A", "order") /\ AddOrder("A", f)
    \/ \E f \in FieldArgs : Alone("A", "returning") /\ Returning("A", f)
    \/ \E f \in FieldArgs : Room("A", "returning") /\ AddReturning("A", f)
    \/ \E f \in ColumnArgs : Alone("A", "columns") /\ Columns("A", f)
    \/ \E f \in ColumnArgs : Room("A", "columns") /\ AddColumns("A", f)
    \/ \E c \in TreeArgs : Alone("A", "where") /\ Where("A", Same(c))
    \/ \E c \in TreeArgs :
          Alone("A", "where") /\ Len(wlog["A"]) \in 1..MaxEntries /\ AndWhere("A", Same(c))
    \/ \E c \in TreeArgs :
          Alone("A", "where") /\ Len(wlog["A"]) \in 1..MaxEntries /\ OrWhere("A", Same(c))

SpecLists == InitLists /\ [][NextLists]_vars

----------------------------------------------------------------------------
(* Properties of SpecGuard: the WHERE guard of Update and Delete *)

HasBuilt == out /= <<>>
Succeeded == out /= <<>> /\ out[1].built.error = ""

\* the tokens part occurs in tokens, consecutively
ContainsSeq(tokens, part) ==
    \E i \in 1..(Len(tokens) - Len(part) + 1) : SubSeq(tokens, i, i + Len(part) - 1) = part

EmptyWhereError(kind) ==
    IF kind = "Delete" THEN DeleteEmptyWhereError ELSE UpdateEmptyWhereError

\* C1: whatever where/and_where/or_where calls were made on the Update or Delete, a
\* build that succeeds has a WHERE clause in its SQL text (a tree that renders to
\* nothing is rejected instead)
C1_BuiltTextHasWhere ==
    (Succeeded /\ heap["A"].kind \in {"Update", "Delete"})
        => "WHERE " \in Range(out[1].built.query)

\* C2: building an Update or Delete whose condition was never set (or was given as
\* None to the constructor) raises the empty-WHERE error of its kind and passes
\* nothing to the driver; built right after where(True), it succeeds with WHERE true
C2_EmptyWhereRestricted ==
    HasBuilt =>
        /\ (wlog["A"] = <<>>) =>
              /\ out[1].built.error = EmptyWhereError(heap["A"].kind)
              /\ raised = EmptyWhereError(heap["A"].kind)
              /\ driver = <<>>
        /\ (wlog["A"] = <<Call("where", PyBool(TRUE))>>) =>
              /\ out[1].built.error = ""
              /\ ContainsSeq(out[1].built.query, <<"WHERE ", "true">>)
              /\ \A i \in DOMAIN driver : driver[i].query = out[1].built.text

\* an Update or Delete that never got a condition was built or executed
C2_Witness ==
    /\ HasBuilt
    /\ wlog["A"] = <<>>
    /\ heap["A"].where = None
    /\ raised /= ""

----------------------------------------------------------------------------
(* Properties of Spec: parameter binding, subqueries, repeated builds *)

\* the names a build context handed out
BindNames(binds) == {binds[k].name : k \in DOMAIN binds}

\* C3: in a successful build with subqueries as WHERE values, the k-th subquery built
\* binds under the prefix p{k-1}_, its names differ from the names generated for the
\* parent, and the parent's parameter map holds the parent's generated parameters
\* and every parameter each subquery generated, with its value
C3_SubqueryParamsMerged ==
    Succeeded =>
        \A k \in DOMAIN out[1].built.subs :
            LET b == out[1].built
                sub == b.subs[k]
            IN  /\ sub.prefix = "p" \o ToString(k - 1) \o "_"
                /\ BindNames(sub.binds) \cap BindNames(b.binds) = {}
                /\ BindNames(b.binds) \subseteq DOMAIN b.params
                /\ \A n \in BindNames(sub.binds) :
                      n \in DOMAIN b.params /\ b.params[n] = sub.params[n]

\* the parameter names under which the two sessions bound different values
Differing(b, o) == {n \in DOMAIN b.params \cap DOMAIN o.params : b.params[n] /= o.params[n]}

\* C4: two sessions making the same calls, differing only in the scalar values given
\* to comparison leaves, SET entries and INSERT rows, build the same SQL text and
\* parameter maps with the same keys; the values differ only under generated
\* placeholder names, each of which occurs in the text
C4_TextIndependentOfValues ==
    HasBuilt =>
        LET b == out[1].built
            o == out[1].other
        IN  /\ b.error = o.error
            /\ b.text = o.text
            /\ DOMAIN b.params = DOMAIN o.params
            /\ Differing(b, o) \subseteq BindNames(b.binds)
            /\ \A n \in BindNames(b.binds) : Placeholder(n)[1] \in Range(b.query)

\* an Update was built whose SET value and comparison value both differ from its twin's
C4_Witness ==
    /\ Succeeded
    /\ heap["A"].kind = "Update"
    /\ heap["A"] /= twin["A"]
    /\ Cardinality(Differing(out[1].built, out[1].other)) >= 2

\* C5: build_query called twice with no other call in between gives the same SQL
\* text and the same parameter map (or the same exception)
C5_BuildTwiceIdentical ==
    (out /= <<>> /\ prev /= <<>>) =>
        /\ out[1].built.error = prev[1].built.error
        /\ out[1].built.text = prev[1].built.text
        /\ out[1].built.params = prev[1].built.params

\* a statement with a seeded parameter, a generated one and a subquery was built twice
C5_Witness ==
    /\ prev /= <<>>
    /\ Succeeded
    /\ out[1].built.subs /= <<>>
    /\ out[1].built.binds /= <<>>
    /\ DOMAIN heap["A"].user_params /= {}

MinUnused(prefix, keys) ==
    CHOOSE i \in 0..Cardinality(keys) :
        /\ ParamName(prefix, i) \notin keys
        /\ \A j \in 0..(i - 1) : ParamName(prefix, j) \in keys

\* the binds of one context: each took the first unused name, none took a seeded one,
\* the indices grow, and they are 0, 1, 2, ... when nothing is seeded anywhere
ContextBindsInOrder(prefix, binds, seeded, anySeeded) ==
    /\ \A k \in DOMAIN binds :
          /\ binds[k].name = ParamName(prefix, MinUnused(prefix, binds[k].keys))
          /\ binds[k].name \notin seeded
    /\ \A j, k \in DOMAIN binds :
          j < k => /\ binds[j].name /= binds[k].name
                   /\ MinUnused(prefix, binds[j].keys) < MinUnused(prefix, binds[k].keys)
    /\ ~anySeeded => \A k \in DOMAIN binds : binds[k].name = ParamName(prefix, k - 1)

\* C7: in every build context each bind gets the first unused name prefix0, prefix1,
\* ...; seeded names are skipped and keep their values; the names are distinct, in
\* the order the values are met (SET before WHERE), and gapless when nothing is seeded
C7_BindsNextUnusedName ==
    Succeeded =>
        LET b == out[1].built
            anySeeded == \E s \in Stmts : DOMAIN heap[s].user_params /= {}
        IN  /\ ContextBindsInOrder(b.prefix, b.binds, DOMAIN heap["A"].user_params, anySeeded)
            /\ \A n \in DOMAIN heap["A"].user_params : b.params[n] = heap["A"].user_params[n]
            /\ \A k \in DOMAIN b.subs :
                  /\ ContextBindsInOrder(b.subs[k].prefix, b.subs[k].binds,
                                         DOMAIN heap[b.subs[k].stmt].user_params, anySeeded)
                  /\ \A n \in DOMAIN heap[b.subs[k].stmt].user_params :
                        b.subs[k].params[n] = heap[b.subs[k].stmt].user_params[n]
            /\ \A i \in DOMAIN heap["A"].fields :
                  /\ i <= Len(b.binds)
                  /\ b.params[b.binds[i].name] = heap["A"].fields[i][2]

\* a statement seeded with p0 was built and bound two values, under p1 and p2
C7_Witness ==
    /\ Succeeded
    /\ "p0" \in DOMAIN heap["A"].user_params
    /\ Len(out[1].built.binds) = 2
    /\ out[1].built.binds[1].name = "p1"
    /\ out[1].built.binds[2].name = "p2"

----------------------------------------------------------------------------
(* Properties of SpecFold: the and_where / or_where fold *)

\* the joining operator of and_where and of or_where
Joining(m) == IF m = "and_where" THEN WHERE_OP_AND ELSE WHERE_OP_OR

\* the argument parses to a Group
IsGroupArg(c) == IsWhereCondArr(ParseWhereCond(c))

\* the SQL a condition of FoldConds that is no Group stands for, when idx values were
\* bound before it; "" when it stands for no SQL at all (a LIKE without values)
Shown(c, idx) ==
    CASE c = PyStr(<<"a">>) -> "\"a\""
      [] c = LeafEq(PyNum(1)) -> "\"x\" = %(p" \o ToString(idx) \o ")s"
      [] OTHER -> ""

\* the values such a condition binds
Bound(c) == IF c = LeafEq(PyNum(1)) THEN 1 ELSE 0

\* (c0) OP (c1) OP ... of the conditions that stand for some SQL
RECURSIVE Joined(_, _, _)
Joined(args, glue, idx) ==
    IF args = <<>> THEN ""
    ELSE LET h == Shown(Head(args), idx)
             rest == Joined(Tail(args), glue, idx + Bound(Head(args)))
         IN  IF h = "" THEN rest
             ELSE IF rest = "" THEN "(" \o h \o ")"
             ELSE "(" \o h \o ")" \o glue \o rest

\* the text build_query gives for the SELECT of SpecFold in the store h
TextOf(h) == Built(BuildQuery(h, "A", "")).text

SelectWhere(shown) == "SELECT FROM \"t\"" \o (IF shown = "" THEN "" ELSE " WHERE " \o shown)

\* C8: after where(c0) and k >= 1 and_where calls (or k or_where calls), none with a
\* Group, the root is one Group of that operator whose children are c0..ck in call
\* order, none of them a Group, and the text is (c0) OP ... OP (ck) over the
\* conditions that render
C8_FlatGroupInCallOrder ==
    LET log == wlog["A"]
        args == [i \in DOMAIN log |-> log[i].arg]
    IN  (/\ Len(log) >= 2
         /\ log[1].m = "where"
         /\ \A i \in 2..Len(log) : log[i].m = log[2].m
         /\ \A i \in DOMAIN log : ~IsGroupArg(args[i]))
        => LET op == Joining(log[2].m)
           IN  /\ heap["A"].where =
                     WhereCondArr(op, [i \in DOMAIN args |-> ParseWhereCond(args[i])])
               /\ \A i \in DOMAIN heap["A"].where[3] : ~IsWhereCondArr(heap["A"].where[3][i])
               /\ TextOf(heap) = SelectWhere(Joined(args, " " \o Str(Upper(op)) \o " ", 0))

\* where(c0).and_where(c1).and_where(c2) was called with three conditions that render
C8_Witness ==
    /\ Len(wlog["A"]) = 3
    /\ wlog["A"][1].m = "where"
    /\ wlog["A"][2].m = "and_where"
    /\ wlog["A"][3].m = "and_where"
    /\ \A i \in 1..3 : wlog["A"][i].arg \in {PyStr(<<"a">>), LeafEq(PyNum(1))}
    /\ wlog["A"][1].arg /= wlog["A"][2].arg

\* the call and_where / or_where that this step made on A, if it made one
FoldStep(call) ==
    /\ call.m \in {"and_where", "or_where"}
    /\ wlog'["A"] = Append(wlog["A"], call)

FoldCalls == {Call(m, c.arg) : m \in {"and_where", "or_where"}, c \in FoldConds}

\* C9: an and_where / or_where on a root that is present and is no Group of the
\* joining operator J makes the root Group(J, [old root, new node]); and
\* where(a).and_where(b).or_where(c) renders ((a) AND (b)) OR (c)
C9_RootDemotedUnderNewGroup ==
    [][\A call \in FoldCalls :
          LET J == Joining(call.m)
              R == heap["A"].where
          IN  (FoldStep(call) /\ R /= None /\ ~(IsWhereCondArr(R) /\ R[2] = J))
              => /\ heap'["A"].where = WhereCondArr(J, <<R, ParseWhereCond(call.arg)>>)
                 /\ (/\ Len(wlog["A"]) = 2
                     /\ wlog["A"][1].m = "where"
                     /\ wlog["A"][2].m = "and_where"
                     /\ call.m = "or_where"
                     /\ \A c \in {wlog["A"][1].arg, wlog["A"][2].arg, call.arg} :
                           Shown(c, 0) /= "")
                    => TextOf(heap') =
                          SelectWhere("("
                              \o Joined(<<wlog["A"][1].arg, wlog["A"][2].arg>>, " AND ", 0)
                              \o ") OR ("
                              \o Shown(call.arg, Bound(wlog["A"][1].arg) + Bound(wlog["A"][2].arg))
                              \o ")")]_vars

\* where(a).and_where(b).or_where(c) was called: the AND group is the first child of
\* the OR root
C9_Witness ==
    /\ Len(wlog["A"]) = 3
    /\ wlog["A"][1].m = "where"
    /\ wlog["A"][2].m = "and_where"
    /\ wlog["A"][3].m = "or_where"
    /\ \A i \in 1..3 : Shown(wlog["A"][i].arg, 0) /= ""
    /\ IsWhereCondArr(heap["A"].where)
    /\ heap["A"].where[2] = WHERE_OP_OR
    /\ IsWhereCondArr(heap["A"].where[3][1])

\* C10 as stated: a Group of J folded into a root Group of J has its children appended
\* in order and no Group of J becomes a child of the root; folded into an absent
\* root it becomes the root
C10_NoGroupOfJBecomesChild ==
    [][\A call \in FoldCalls :
          LET J == Joining(call.m)
              R == heap["A"].where
              N == ParseWhereCond(call.arg)
              R2 == heap'["A"].where
          IN  (FoldStep(call) /\ IsWhereCondArr(N) /\ N[2] = J)
              => /\ (IsWhereCondArr(R) /\ R[2] = J) =>
                        /\ R2 = WhereCondArr(J, R[3] \o N[3])
                        /\ \A i \in (Len(R[3]) + 1)..Len(R2[3]) :
                              ~(IsWhereCondArr(R2[3][i]) /\ R2[3][i][2] = J)
                 /\ (R = None) => R2 = N]_vars

\* C10 amended: the children of the new Group are appended to the root's children in
\* order and unchanged, the new Group itself is not made a child (a child of it that
\* is a Group of J stays one); folded into an absent root it becomes the root
C10_GroupSplicedInOrder ==
    [][\A call \in FoldCalls :
          LET J == Joining(call.m)
              R == heap["A"].where
              N == ParseWhereCond(call.arg)
              R2 == heap'["A"].where
          IN  (FoldStep(call) /\ IsWhereCondArr(N) /\ N[2] = J)
              => /\ (IsWhereCondArr(R) /\ R[2] = J) =>
                        /\ R2 = WhereCondArr(J, R[3] \o N[3])
                        /\ Len(R2[3]) = Len(R[3]) + Len(N[3])
                        /\ \A i \in DOMAIN N[3] :
                              R2[3][Len(R[3]) + i] = N[3][i] /\ R2[3][Len(R[3]) + i] /= N
                 /\ (R = None) => R2 = N]_vars

\* and_where(['and', ['and', 'b', 'c'], 'd']) was folded into an AND root
C10_Witness ==
    /\ Len(wlog["A"]) >= 2
    /\ wlog["A"][Len(wlog["A"])] = Call("and_where", AndOfAnd)
    /\ IsWhereCondArr(heap["A"].where)
    /\ heap["A"].where[2] = WHERE_OP_AND
    /\ Len(heap["A"].where[3]) >= 4

----------------------------------------------------------------------------
(* Properties of SpecCond: the shapes of a condition and what they render to *)

\* what build_query gives for the statement A of the store h
BuiltOf(h) == Built(BuildQuery(h, "A", ""))

\* the last call was a build and nothing raised
BuiltFine == HasBuilt /\ out[1].built.error = ""

\* the node stands for no SQL: a LIKE over no values, or a Group none of whose
\* children stands for any
RECURSIVE RendersNothing(_)
RendersNothing(n) ==
    IF IsWhereCondArr(n) THEN \A i \in DOMAIN n[3] : RendersNothing(n[3][i])
    ELSE IsWhereCond(n) /\ n[2] \in OpsLike /\ n[4] \in {EmptyList, EmptyTuple}

\* the tree without the children that stand for no SQL, at every depth
RECURSIVE Pruned(_)
Pruned(n) ==
    IF IsWhereCondArr(n)
    THEN WhereCondArr(n[2], [i \in DOMAIN SelectSeq(n[3], LAMBDA c : ~RendersNothing(c)) |->
                                Pruned(SelectSeq(n[3], LAMBDA c : ~RendersNothing(c))[i])])
    ELSE n

\* C11: what a build gives for a condition tree is what it gives for the tree without
\* the children that render to nothing, at every depth, and when the whole tree
\* renders to nothing the SELECT is built without error and without a WHERE
C11_AbsentChildrenDropped ==
    (HasBuilt /\ heap["A"].where /= None)
    => /\ out[1].built =
             BuiltOf([heap EXCEPT !["A"].where = Pruned(heap["A"].where)])
       /\ RendersNothing(heap["A"].where)
             => out[1].built.error = "" /\ out[1].built.text = SelectWhere("")

\* where(['and', ['like', 'a', []], 'a', ['or']]).or_where(['like', 'a', []]) was built:
\* children that render to nothing at two depths, around one that renders
C11_Witness ==
    /\ BuiltFine
    /\ wlog["A"] = <<Call("where", NothingAround), Call("or_where", LikeNothing)>>
    /\ out[1].built.text = SelectWhere("((\"a\"))")

\* where(['or', ['and', ['like', 'a', []]], ['and']]) was built: nothing renders
C11_WitnessNothing ==
    /\ BuiltFine
    /\ wlog["A"] = <<Call("where", NestedNothing)>>
    /\ out[1].built.text = SelectWhere("")

\* where(c) was the only condition call and the statement was then built
Asked(c) == HasBuilt /\ wlog["A"] = <<Call("where", c)>>

\* the WHERE text of a single leaf: a mapping puts its leaf into a Group
AsWritten(c, leaf) == SelectWhere(IF IsMapping(c) THEN "(" \o leaf \o ")" ELSE leaf)

\* the parameter map that holds value under the first generated name, and nothing else
OnlyP0(value) == DictSet(EmptyDict, "p0", value)

\* C12: IN / NOT IN over an empty collection, however written (operator, mapping,
\* 2-element sequence, = / <> / != over a collection), renders the constant false and
\* binds nothing; over a non-empty collection it binds the collection as one tuple
C12_EmptyInIsFalse ==
    /\ \A v \in {EmptyList, EmptyTuple} : \A c \in InForms(v) \cup NotInForms(v) :
          Asked(c) => /\ out[1].built.error = ""
                      /\ out[1].built.text = AsWritten(c, "false")
                      /\ out[1].built.params = EmptyDict
                      /\ out[1].built.binds = <<>>
    /\ \A c \in InForms(OneTwo) \cup NotInForms(OneTwo) :
          Asked(c) => /\ out[1].built.error = ""
                      /\ out[1].built.text =
                            AsWritten(c, IF c \in InForms(OneTwo) THEN "\"k\" IN %(p0)s"
                                         ELSE "\"k\" NOT IN %(p0)s")
                      /\ out[1].built.params = OnlyP0(PyTuple(OneTwo[2]))
                      /\ Len(out[1].built.binds) = 1

\* where(['<>', 'k', []]) was built: the collapse to NOT IN met an empty collection
C12_Witness ==
    /\ Asked(Op3(WHERE_OP_NE, EmptyList))
    /\ out[1].built.text = SelectWhere("false")

\* where({'k': [1, 2]}) was built: one tuple is bound
C12_WitnessBound ==
    /\ Asked(KeyIs(OneTwo))
    /\ out[1].built.params = OnlyP0(PyTuple(OneTwo[2]))

\* C13: = / <> / != against a boolean renders the bare quoted identifier when the
\* operator is = and the value true, or the operator is <> or != and the value false,
\* and NOT followed by the identifier otherwise; nothing is bound
C13_BooleanCollapse ==
    \A op \in CollapseOps : \A b \in BOOLEAN :
        Asked(Op3(op, PyBool(b)))
        => /\ out[1].built.error = ""
           /\ out[1].built.text =
                 SelectWhere(IF (op = WHERE_OP_EQUAL /\ b) \/ (op /= WHERE_OP_EQUAL /\ ~b)
                             THEN "\"k\"" ELSE "NOT \"k\"")
           /\ out[1].built.params = EmptyDict
           /\ out[1].built.binds = <<>>

\* where(['!=', 'k', False]) was built: the inequality with false is the bare identifier
C13_Witness ==
    /\ Asked(Op3(WHERE_OP_NE2, PyBool(FALSE)))
    /\ out[1].built.text = SelectWhere("\"k\"")

\* the membership operator = and <> / != stand for over a collection
Membership(op) == IF op = WHERE_OP_EQUAL THEN WHERE_OP_IN ELSE WHERE_OP_NOT_IN

\* C14: against None, = renders IS NULL and <> / != render IS NOT NULL and nothing is
\* bound; against a list or a tuple, = gives the very build the IN leaf over the same
\* identifier and value gives, and <> / != the build of the NOT IN leaf
C14_CollapseKeepsDirection ==
    \A op \in CollapseOps :
        /\ Asked(Op3(op, None))
           => /\ out[1].built.error = ""
              /\ out[1].built.text =
                    SelectWhere(IF op = WHERE_OP_EQUAL THEN "\"k\" IS NULL"
                                ELSE "\"k\" IS NOT NULL")
              /\ out[1].built.params = EmptyDict
              /\ out[1].built.binds = <<>>
        /\ \A v \in Collections :
              Asked(Op3(op, v))
              => /\ out[1].built.error = ""
                 /\ out[1].built =
                       BuiltOf([heap EXCEPT !["A"].where =
                                   WhereCond(Membership(op), PyStr(<<"k">>), v)])

\* where(['!=', 'k', [1, 2]]) was built and reads NOT IN
C14_Witness ==
    /\ Asked(Op3(WHERE_OP_NE2, OneTwo))
    /\ out[1].built.text = SelectWhere("\"k\" NOT IN %(p0)s")

\* where(['<>', 'k', None]) was built and reads IS NOT NULL
C14_WitnessNull ==
    /\ Asked(Op3(WHERE_OP_NE, None))
    /\ out[1].built.text = SelectWhere("\"k\" IS NOT NULL")

\* str.replace(c, by) on a str kept as its characters
Replaced(chars, c, by) ==
    Flatten([i \in DOMAIN chars |-> IF chars[i] = c THEN by ELSE <<chars[i]>>])

\* e(v): each $ becomes $$, then each % becomes $%
Escaped(chars) == Replaced(Replaced(chars, "$", <<"$", "$">>), "%", <<"$", "%">>)

\* the SQL operator and the combinator a LIKE keyword of LikeOps stands for
LikeWord(op) ==
    IF op \in {WHERE_OP_LIKE, WHERE_OP_OR_LIKE} THEN "LIKE" ELSE "NOT ILIKE"
LikeGlue(op) ==
    IF op \in {WHERE_OP_OR_LIKE, WHERE_OP_OR_NOT_ILIKE} THEN " OR " ELSE " AND "

\* C15: a LIKE value v without % is bound as %v% and its fragment has no ESCAPE; a
\* value with % is bound as the one parameter $ + e(v) + $ and its fragment ends with
\* ESCAPE '$'; wo%r$d is bound as $wo$%r$$d$
C15_LikeEscaping ==
    /\ Escaped(Wild[2]) = <<"w","o","$","%","r","$","$","d">>
    /\ \A op \in LikeOps :
          /\ Asked(Op3(op, Word))
             => /\ out[1].built.error = ""
                /\ out[1].built.params = OnlyP0(PyStr(<<"%">> \o Word[2] \o <<"%">>))
                /\ out[1].built.text =
                      SelectWhere("(\"k\" " \o LikeWord(op) \o " %(p0)s)")
          /\ Asked(Op3(op, Wild))
             => /\ out[1].built.error = ""
                /\ out[1].built.params = OnlyP0(PyStr(<<"$">> \o Escaped(Wild[2]) \o <<"$">>))
                /\ out[1].built.text =
                      SelectWhere("(\"k\" " \o LikeWord(op) \o " %(p0)s ESCAPE '$')")
          /\ Asked(Op3(op, PyList(<<Word, Wild>>)))
             => /\ out[1].built.error = ""
                /\ out[1].built.params =
                      DictSet(OnlyP0(PyStr(<<"%">> \o Word[2] \o <<"%">>)), "p1",
                              PyStr(<<"$">> \o Escaped(Wild[2]) \o <<"$">>))
                /\ out[1].built.text =
                      SelectWhere("(\"k\" " \o LikeWord(op) \o " %(p0)s" \o LikeGlue(op)
                                  \o "\"k\" " \o LikeWord(op) \o " %(p1)s ESCAPE '$')")

\* where(['like', 'k', 'wo%r$d']) was built
C15_Witness ==
    /\ Asked(Op3(WHERE_OP_LIKE, Wild))
    /\ out[1].built.params["p0"] = PyStr(<<"$","w","o","$","%","r","$","$","d","$">>)

\* C16: a LIKE value with % is bound, after escaping, between an unescaped leading
\* and trailing %, and the fragment ends with ESCAPE '$'
C16_EscapedKeepsWildcards ==
    \A op \in LikeOps :
        Asked(Op3(op, Wild))
        => /\ out[1].built.params = OnlyP0(PyStr(<<"%">> \o Escaped(Wild[2]) \o <<"%">>))
           /\ out[1].built.text =
                 SelectWhere("(\"k\" " \o LikeWord(op) \o " %(p0)s ESCAPE '$')")

\* C17: the parser returns a Leaf, a Group and a Raw node unchanged, so parsing the
\* tree a call has stored gives that tree again: parse(parse(x)) = parse(x)
C17_ParseIsIdempotent ==
    heap["A"].where /= None => ParseWhereCond(heap["A"].where) = heap["A"].where

\* C18: an input of no recognized shape that was accepted by where / and_where /
\* or_where does not make the build of the statement fail (its call is where it fails)
C18_NoFailureDeferredToBuild ==
    (HasBuilt /\ \E i \in DOMAIN wlog["A"] : wlog["A"][i].arg \in Malformed)
    => out[1].built.error = ""

\* the operator a pair of a mapping stands for
PairOp(value) ==
    IF value = None THEN WHERE_OP_IS_NULL
    ELSE IF Tag(value) \in {"list", "tuple"} THEN WHERE_OP_IN
    ELSE WHERE_OP_EQUAL

\* C19: where(mapping) stores a Group(AND) of one Leaf per pair in the order of the
\* mapping, with IS NULL for a None value, IN for a list or tuple and = otherwise (a
\* nested statement included); where({'id': 1}) builds WHERE ("id" = p0) with {p0: 1}
C19_MappingIsAndOfLeaves ==
    /\ \A c \in MappingConds :
          wlog["A"] = <<Call("where", c)>>
          => /\ heap["A"].where[1] = "arr"
             /\ heap["A"].where[2] = WHERE_OP_AND
             /\ Len(heap["A"].where[3]) = Len(c[2])
             /\ \A i \in DOMAIN c[2] :
                   heap["A"].where[3][i] = WhereCond(PairOp(c[2][i][2]), c[2][i][1], c[2][i][2])
    /\ Asked(IdIsOne)
       => /\ out[1].built.error = ""
          /\ out[1].built.text = SelectWhere("(\"id\" = %(p0)s)")
          /\ out[1].built.params = OnlyP0(PyNum(1))

\* where({'a': 1, 'b': None, 'c': [1, 2], 'd': 'word', 'r': B}) was called
C19_Witness ==
    /\ wlog["A"] = <<Call("where", FivePairs)>>
    /\ Len(heap["A"].where[3]) = 5
    /\ heap["A"].where[3][2][2] = WHERE_OP_IS_NULL
    /\ heap["A"].where[3][5][2] = WHERE_OP_EQUAL

\* where({'id': 1}) was built
C19_WitnessBuilt ==
    /\ Asked(IdIsOne)
    /\ out[1].built.params = OnlyP0(PyNum(1))

\* C20: where(where_cond_arr(op='or', conds=[('i', 1), ('j', 2)])) builds
\* WHERE ("i" = p0) OR ("j" = p1) with both values bound: the pairs are rendered as
\* the equalities they denote, none is dropped
C20_TypedGroupOfPairsRenders ==
    Asked(PairsGroup)
    => /\ out[1].built.error = ""
       /\ out[1].built.text = SelectWhere("(\"i\" = %(p0)s) OR (\"j\" = %(p1)s)")
       /\ out[1].built.params = DictSet(OnlyP0(PyNum(1)), "p1", PyNum(2))

----------------------------------------------------------------------------
(* Properties of SpecQuote: quote_string on a string *)

\* quote_string was called and gave a result
HasQuoted == quoted /= <<>> /\ quoted[1].q /= None

\* the last character of the maximal run of word characters that starts at i
RunEnd(chars, i) ==
    CHOOSE j \in i..Len(chars) :
        /\ \A k \in i..j : IsWordChar(chars[k])
        /\ j = Len(chars) \/ ~IsWordChar(chars[j + 1])

\* the integer literal a run of digits stands for: the digits without leading zeros
RECURSIVE Numeral(_)
Numeral(run) ==
    IF Len(run) > 1 /\ run[1] = "0" THEN Numeral(Tail(run)) ELSE Str(run)

\* a string from its i-th character on, with every maximal run of word characters
\* quoted (or, made of digits only, written as an integer) and every other character
\* copied in place
RECURSIVE Rendering(_, _)
Rendering(chars, i) ==
    IF i > Len(chars) THEN ""
    ELSE IF ~IsWordChar(chars[i]) THEN chars[i] \o Rendering(chars, i + 1)
    ELSE LET run == SubSeq(chars, i, RunEnd(chars, i))
         IN  (IF \A k \in DOMAIN run : run[k] \in {"0", "1"}
              THEN Numeral(run)
              ELSE "\"" \o Str(run) \o "\"")
             \o Rendering(chars, RunEnd(chars, i) + 1)

\* C22: quote_string gives a string that holds ( or ) back verbatim, and any other
\* string with every maximal run of word characters as a quoted identifier (a run of
\* digits as an integer literal) and every other character copied in place
C22_QuoteStringRuns ==
    HasQuoted
    => AsString(quoted[1].q) =
          IF \E i \in DOMAIN quoted[1].val[2] : quoted[1].val[2][i] \in {"(", ")"}
          THEN Str(quoted[1].val[2])
          ELSE Rendering(quoted[1].val[2], 1)

\* quote_string('a.1') gave "a".1
C22_Witness ==
    /\ HasQuoted
    /\ quoted[1].val = PyStr(<<"a", ".", "1">>)
    /\ AsString(quoted[1].q) = "\"a\".1"

----------------------------------------------------------------------------
(* Properties of SpecConn: nested transactions *)

\* the transactions still open after the calls of a log, innermost last: each is the
\* statement its begin_transaction sent
RECURSIVE StillOpen(_)
StillOpen(log) ==
    IF log = <<>> THEN <<>>
    ELSE IF log[Len(log)].call = "begin_transaction"
    THEN Append(StillOpen(SubSeq(log, 1, Len(log) - 1)), log[Len(log)].text)
    ELSE IF StillOpen(SubSeq(log, 1, Len(log) - 1)) = <<>> THEN <<>>
    ELSE SubSeq(StillOpen(SubSeq(log, 1, Len(log) - 1)), 1,
                Len(StillOpen(SubSeq(log, 1, Len(log) - 1))) - 1)

\* what the i-th call of the log has to ask of the driver, k transactions being open
\* when it is made, the innermost opened by the statement top
AskedRight(r, k, top) ==
    IF r.call = "begin_transaction"
    THEN /\ r.via = "cursor.execute"
         /\ r.text = IF k = 0 THEN "BEGIN TRANSACTION" ELSE "SAVEPOINT sp_" \o ToString(k)
    ELSE IF k >= 2
    THEN /\ r.via = "cursor.execute"
         /\ top = "SAVEPOINT sp_" \o ToString(k - 1)
         /\ r.text = (IF r.call = "commit" THEN "RELEASE " ELSE "ROLLBACK TO ") \o top
    ELSE r.via = "super()." \o r.call

\* C25: the level is the number of transactions still open and is never negative;
\* begin_transaction sends BEGIN at level 0 and SAVEPOINT sp_k at level k >= 1; a commit
\* or rollback that closes depth k >= 2 releases (rolls back to) the savepoint sent when
\* that depth was opened, sp_(k-1); the driver's commit / rollback is called only by a
\* call that leaves the level at 0
C25_NestedTransactions ==
    /\ conn._transaction_level = Len(StillOpen(conn.asked))
    /\ conn._transaction_level >= 0
    /\ \A i \in DOMAIN conn.asked :
          AskedRight(conn.asked[i],
                     Len(StillOpen(SubSeq(conn.asked, 1, i - 1))),
                     IF StillOpen(SubSeq(conn.asked, 1, i - 1)) = <<>> THEN ""
                     ELSE StillOpen(SubSeq(conn.asked, 1, i - 1))
                              [Len(StillOpen(SubSeq(conn.asked, 1, i - 1)))])
    /\ \A i \in DOMAIN conn.asked :
          conn.asked[i].via \in {"super().commit", "super().rollback"}
          => StillOpen(SubSeq(conn.asked, 1, i)) = <<>>

\* begin, begin, begin, rollback, commit as in test_multilevel_transactions: the level
\* is back at 1 after ROLLBACK TO SAVEPOINT sp_2 and RELEASE SAVEPOINT sp_1
C25_Witness ==
    /\ conn._transaction_level = 1
    /\ Len(conn.asked) = 5
    /\ conn.asked[3].text = "SAVEPOINT sp_2"
    /\ conn.asked[4].text = "ROLLBACK TO SAVEPOINT sp_2"
    /\ conn.asked[5].text = "RELEASE SAVEPOINT sp_1"

----------------------------------------------------------------------------
(* Properties of SpecInsert: the VALUES list of an Insert *)

\* the rows and the columns the Insert A holds
InsertRows == IF Tag(heap["A"].values) = "list" THEN heap["A"].values[2] ELSE <<>>
InsertColumns == heap["A"].columns

\* the row holds a value for the column
Holds(row, column) == \E i \in DOMAIN row[2] : row[2][i][1] = column

\* the values bound before the cell of row r and column k, going row by row
BoundBefore(rows, columns, r, k) ==
    Cardinality({cell \in (1..Len(rows)) \X (1..Len(columns)) :
                    /\ cell[1] < r \/ (cell[1] = r /\ cell[2] < k)
                    /\ Holds(rows[cell[1]], columns[cell[2]])})

\* strings with a separator between them
RECURSIVE Glued(_, _)
Glued(sep, strs) ==
    IF strs = <<>> THEN ""
    ELSE IF Len(strs) = 1 THEN strs[1]
    ELSE strs[1] \o sep \o Glued(sep, Tail(strs))

\* the VALUES list for rows and columns: per row one entry per column, a placeholder
\* numbered in order of appearance where the row holds a value, NULL where it does not
ValuesList(rows, columns) ==
    Glued(", ", [r \in DOMAIN rows |->
        "(" \o Glued(", ", [k \in DOMAIN columns |->
                  IF Holds(rows[r], columns[k])
                  THEN "%(p" \o ToString(BoundBefore(rows, columns, r, k)) \o ")s"
                  ELSE "NULL"])
        \o ")"])

\* the build of the Insert gave the column list, the VALUES list of its rows and
\* columns, and each held value under the name of its placeholder
RowsRendered ==
    (HasBuilt /\ out[1].built.error = "")
    => /\ out[1].built.text =
             "INSERT INTO \"t\""
             \o (IF InsertColumns = <<>> THEN ""
                 ELSE "(" \o Glued(", ", [k \in DOMAIN InsertColumns |->
                                 "\"" \o Str(InsertColumns[k][2]) \o "\""]) \o ")")
             \o (IF InsertRows = <<>> THEN ""
                 ELSE " VALUES " \o ValuesList(InsertRows, InsertColumns))
       /\ \A r \in DOMAIN InsertRows : \A k \in DOMAIN InsertColumns :
             Holds(InsertRows[r], InsertColumns[k])
             => out[1].built.params[
                    "p" \o ToString(BoundBefore(InsertRows, InsertColumns, r, k))]
                = Lookup(InsertRows[r][2], InsertColumns[k])
       /\ Cardinality(DOMAIN out[1].built.params) =
             BoundBefore(InsertRows, InsertColumns, Len(InsertRows) + 1, 1)

\* C30: while no call raised, a built Insert lists for every row, in the order the rows
\* were added, one entry per column in column order: the row's value for the column
\* as a bound parameter, or NULL when the row holds none; add_values puts its row
\* after the rows already there and leaves those as they were
C30_RowsMatchColumns ==
    [][/\ RowsRendered'
       /\ \A v \in ValueArgs :
             (AddValues("A", Same(v)) /\ raised' = "")
             => /\ Len(InsertRows') = Len(InsertRows) + 1
                /\ SubSeq(InsertRows', 1, Len(InsertRows)) = InsertRows
                /\ IF IsMapping(v) THEN InsertRows'[Len(InsertRows')] = v
                   ELSE \A k \in DOMAIN InsertColumns :
                           (\A j \in DOMAIN InsertColumns :
                               InsertColumns[j] = InsertColumns[k] => j = k)
                           => Lookup(InsertRows'[Len(InsertRows')][2], InsertColumns[k])
                              = v[2][k]]_vars

\* columns('i, j'), add_values((7, 8)), add_values({'k': 2, 'i': None}) and the build:
\* the first row has no value for the later column k, the second none for j
C30_Witness ==
    /\ HasBuilt
    /\ out[1].built.text =
          "INSERT INTO \"t\"(\"i\", \"j\", \"k\") VALUES (%(p0)s, %(p1)s, NULL), (%(p2)s, NULL, %(p3)s)"
    /\ out[1].built.params["p2"] = None
    /\ out[1].built.params["p3"] = PyNum(2)

----------------------------------------------------------------------------
(* Properties of SpecSelect: the clauses of a SELECT *)

\* the SELECT A
Sel == heap["A"]

\* the text each clause of A stands for, "" for a clause with no entries
WithText == IF Sel.with = <<>> THEN "" ELSE "WITH \"c\" AS (SELECT 1)"
SelectText == IF Sel.select = <<>> THEN "SELECT" ELSE "SELECT \"id\""
FromText == IF Sel.from = <<>> THEN "" ELSE "FROM \"t\""
JoinText ==
    Glued(" ", [k \in DOMAIN Sel.join |-> Sel.join[k][2] \o " JOIN \"j\" ON \"a\"=\"b\""])
WhereText == IF Sel.where = None THEN "" ELSE "WHERE \"w\""
GroupText == IF Sel.group = <<>> THEN "" ELSE "GROUP BY \"g\""
OrderText == IF Sel.order = <<>> THEN "" ELSE "ORDER BY \"o\""
\* the LIMIT clause as the text shows it; none when the limit is None
LimitText ==
    IF Sel.limit /= None /\ \E i \in DOMAIN out[1].built.query : out[1].built.query[i] = "LIMIT "
    THEN "LIMIT " \o ToString(Sel.limit[2])
    ELSE ""

\* the clauses that have text, in the order given
NonEmpty(texts) == SelectSeq(texts, LAMBDA text : text /= "")

LastTokens ==
    SubSeq(out[1].built.query, Len(out[1].built.query) - 1, Len(out[1].built.query))

\* C29: a built SELECT whose limit was last set to an integer n >= 0, 0 included, ends
\* with LIMIT n; it has no LIMIT clause only when the limit is None (never set, or
\* limit(None))
C29_LimitRendered ==
    (HasBuilt /\ out[1].built.error = "")
    => IF Sel.limit = None
       THEN \A i \in DOMAIN out[1].built.query : out[1].built.query[i] /= "LIMIT "
       ELSE /\ Len(out[1].built.query) >= 2
            /\ LastTokens = <<"LIMIT ", ToString(Sel.limit[2])>>

\* C21: a join call without an on condition, whichever join type, raises nothing,
\* adds its entry after the joins already there, and the SELECT then builds with the
\* JOIN and its table and without an ON part for it
C21_JoinWithoutOn ==
    [][\A jt \in JoinTypes :
          JoinTable("A", jt, PyStr(<<"j">>), None)
          => /\ raised' = ""
             /\ Len(Sel'.join) = Len(Sel.join) + 1
             /\ BuiltOf(heap').error = ""
             /\ ContainsSeq(BuiltOf(heap').query, <<jt, " JOIN", "", " ", "", "\"j\"", "">>)
             /\ Cardinality({i \in DOMAIN BuiltOf(heap').query :
                                BuiltOf(heap').query[i] = " ON "})
                = Cardinality({k \in DOMAIN Sel.join : Sel.join[k][4] /= None})]_vars

----------------------------------------------------------------------------
(* Properties of SpecLists: setters and adders *)

\* the statement A before and after the step
Was == heap["A"]
Now == heap'["A"]

\* a statement of A's kind that holds nothing yet
Blank == IF Was.kind = "Insert" THEN NewInsert(None, None) ELSE NewQuery

\* C24: a setter leaves in its clause exactly the entries its argument gives on a
\* statement that holds nothing, whatever the clause held before; an adder leaves the
\* entries the clause held, in their order, followed by those entries; where() leaves
\* the parsed condition alone, whatever tree had been folded before
C24_SettersAndAdders ==
    [][/\ \A f \in FieldArgs :
             /\ Select("A", f) => Now.select = SelectOp(Blank, f).select
             /\ AddSelect("A", f) => Now.select = Was.select \o SelectOp(Blank, f).select
             /\ Returning("A", f) => Now.returning = ReturningOp(Blank, f).returning
             /\ AddReturning("A", f)
                => Now.returning = Was.returning \o ReturningOp(Blank, f).returning
       /\ \A f \in GroupArgs :
             /\ Group("A", f) => Now.group = GroupOp(Blank, f).group
             /\ AddGroup("A", f) => Now.group = Was.group \o GroupOp(Blank, f).group
       /\ \A f \in TableArgs :
             /\ From("A", f) => Now.from = FromOp(Blank, f, None).from
             /\ AddFrom("A", f) => Now.from = Was.from \o FromOp(Blank, f, None).from
       /\ \A f \in OrderArgs :
             /\ OrderBy("A", f) => Now.order = OrderOp(Blank, f).order
             /\ AddOrder("A", f) => Now.order = Was.order \o OrderOp(Blank, f).order
       /\ \A a \in WithArgs :
             /\ With("A", CteText, a) => Now.with = WithOp(Blank, CteText, a, FALSE).with
             /\ AddWith("A", CteText, a)
                => Now.with = Was.with \o WithOp(Blank, CteText, a, FALSE).with
       /\ \A f \in ColumnArgs :
             /\ Columns("A", f) => Now.columns = ColumnsOp(Blank, f).columns
             /\ AddColumns("A", f) => Now.columns = Was.columns \o ColumnsOp(Blank, f).columns
       /\ \A c \in TreeArgs :
             Where("A", Same(c)) => Now.where = ParseWhereCond(c)]_vars

\* select(['c']) and add_select('a, b'): the entries of the two calls, in call order
C24_Witness ==
    /\ heap["A"].select = << Alias(PyStr(<<"c">>), None), Alias(PyStr(<<"a">>), None),
                             Alias(PyStr(<<"b">>), None) >>
    /\ raised = ""

----------------------------------------------------------------------------
(* Properties of SpecNested: subqueries of subqueries *)

\* the values bound in a build and in the builds of its subqueries, all levels, each
\* with the name its placeholder got
RECURSIVE AllBinds(_)
AllBinds(b) ==
    b.binds \o Flatten([k \in DOMAIN b.subs |-> AllBinds(b.subs[k])])

\* C27: in a build of A that raised nothing, two placeholders that stand for different
\* bound values, at whatever levels of nesting they were allocated, have different names
C27_NamesDisjointAtDepth ==
    (HasBuilt /\ out[1].built.error = "")
    => \A i, j \in DOMAIN AllBinds(out[1].built) :
          AllBinds(out[1].built)[i].value /= AllBinds(out[1].built)[j].value
          => AllBinds(out[1].built)[i].name /= AllBinds(out[1].built)[j].name

\* C28: after a build of A that raised nothing, every name A had seeded and every name
\* the top-level context generated still has the value it was given: no merge of a
\* subquery's parameters put another value under it
C28_MergeKeepsParentEntries ==
    (HasBuilt /\ out[1].built.error = "")
    => /\ \A n \in DOMAIN heap["A"].user_params :
             out[1].built.params[n] = heap["A"].user_params[n]
       /\ \A k \in DOMAIN out[1].built.binds :
             out[1].built.params[out[1].built.binds[k].name] = out[1].built.binds[k].value

----------------------------------------------------------------------------
(* Properties of SpecShared: a Group object given to two statements *)

\* the WHERE text build_query gives for the statement s of the store h
WhereTextOf(h, s) == Built(BuildQuery(h, s, "")).text

\* C26: an and_where or or_where call on one statement, with whatever condition, leaves
\* the Group the caller holds as it was, and leaves the tree of the other statement and
\* the SQL built from it as they were
C26_CallerGroupUntouched ==
    [][\A s \in Stmts : \A cond_op \in {WHERE_OP_AND, WHERE_OP_OR} :
          (WhereArrOf(s, None, cond_op, TRUE) \/ WhereArrOf(s, PyStr(<<"w">>), cond_op, FALSE))
          => /\ held'.group = held.group
             /\ \A t \in Stmts \ {s} :
                   /\ heap'[t].where = heap[t].where
                   /\ WhereTextOf(heap', t) = WhereTextOf(heap, t)]_vars

====
